---- MODULE Spec2Model ----
(***************************************************************************)
(* Omnicontrol backend: pairing-job tracker, Bluetooth pairing, address    *)
(* normalisation and the Samsung SmartView session/token manager.          *)
(*                                                                         *)
(* Python strings that the code inspects character by character (Bluetooth *)
(* addresses, device ids) are sequences of one-character strings.          *)
(* Python dicts are functions whose DOMAIN is the set of keys present.     *)
(***************************************************************************)
EXTENDS Integers, Sequences, FiniteSets, TLC

(***************************************************************************)
(* Bounds of the model                                                     *)
(***************************************************************************)
\* inputs of the address normalisers hold AddrHexLen-MaxExtra .. AddrHexLen+MaxExtra digits
MaxExtra == 1

\* len(hex_only) != 12
AddrHexLen == 12

None == "None"

\* address=None of a Device: a value that no str equals
NoAddress == <<None>>

(***************************************************************************)
(* Characters and string helpers                                           *)
(***************************************************************************)
LowerLetters == <<"a", "b", "c", "d", "e", "f", "g", "h", "i", "j", "k", "l", "m",
                  "n", "o", "p", "q", "r", "s", "t", "u", "v", "w", "x", "y", "z">>
UpperLetters == <<"A", "B", "C", "D", "E", "F", "G", "H", "I", "J", "K", "L", "M",
                  "N", "O", "P", "Q", "R", "S", "T", "U", "V", "W", "X", "Y", "Z">>
DigitChars == {"0", "1", "2", "3", "4", "5", "6", "7", "8", "9"}
HexChars == DigitChars \cup {"a", "b", "c", "d", "e", "f", "A", "B", "C", "D", "E", "F"}
Whitespace == {" "}

\* str.upper() on one character
ToUpper(c) ==
    IF \E i \in 1..Len(LowerLetters) : LowerLetters[i] = c
    THEN UpperLetters[CHOOSE i \in 1..Len(LowerLetters) : LowerLetters[i] = c]
    ELSE c

\* str.lower() on one character
ToLower(c) ==
    IF \E i \in 1..Len(UpperLetters) : UpperLetters[i] = c
    THEN LowerLetters[CHOOSE i \in 1..Len(UpperLetters) : UpperLetters[i] = c]
    ELSE c

Upper(s) == [i \in 1..Len(s) |-> ToUpper(s[i])]
Lower(s) == [i \in 1..Len(s) |-> ToLower(s[i])]

IsHex(c) == c \in HexChars
IsSpace(c) == c \in Whitespace

RECURSIVE LStrip(_)
LStrip(s) == IF s # <<>> /\ IsSpace(Head(s)) THEN LStrip(Tail(s)) ELSE s

RECURSIVE RStrip(_)
RStrip(s) == IF s # <<>> /\ IsSpace(s[Len(s)]) THEN RStrip(SubSeq(s, 1, Len(s) - 1)) ELSE s

\* str.strip()
Strip(s) == RStrip(LStrip(s))

\* str.replace(a, b) for one-character a and a string b of length <= 1
ReplaceChar(s, a, b) == [i \in 1..Len(s) |-> IF s[i] = a THEN b ELSE s[i]]

\* str.startswith(p)
StartsWith(s, p) == Len(s) >= Len(p) /\ SubSeq(s, 1, Len(p)) = p

\* s[n:]
DropFirst(s, n) == IF n >= Len(s) THEN <<>> ELSE SubSeq(s, n + 1, Len(s))

\* re.sub(r"[^0-9A-Fa-f]", "", s) and "".join(re.findall(r"[0-9A-Fa-f]", s))
HexOnly(s) == SelectSeq(s, IsHex)

\* re.sub(r"\s+", "", s)
RemoveSpace(s) == SelectSeq(s, LAMBDA c : ~IsSpace(c))

\* ":".join(hex[i:i+2] for i in range(0, 12, 2)): a colon before every odd
\* position but the first
RECURSIVE JoinPairs(_, _)
JoinPairs(h, i) ==
    IF i > Len(h) THEN <<>>
    ELSE (IF i > 1 /\ i % 2 = 1 THEN <<":">> ELSE <<>>) \o <<h[i]>> \o JoinPairs(h, i + 1)

\* re.split(r"[^0-9A-Fa-f]+", s) with the empty parts removed: the maximal
\* runs of hex characters of s, in order
RECURSIVE HexRuns(_, _)
HexRuns(s, cur) ==
    IF s = <<>> THEN (IF cur = <<>> THEN <<>> ELSE <<cur>>)
    ELSE IF IsHex(Head(s)) THEN HexRuns(Tail(s), Append(cur, Head(s)))
    ELSE (IF cur = <<>> THEN <<>> ELSE <<cur>>) \o HexRuns(Tail(s), <<>>)

\* "".join(parts)
RECURSIVE Concat(_)
Concat(parts) == IF parts = <<>> THEN <<>> ELSE Head(parts) \o Concat(Tail(parts))

\* the result of a call that has not been made yet
NoResult == [called |-> FALSE]

Ok(v) == [ok |-> TRUE, value |-> v]
Err(e) == [ok |-> FALSE, error |-> e]

(***************************************************************************)
(* DeviceManager._normalize_bt_address                                     *)
(***************************************************************************)
DM_StripDevPrefix(cleaned) ==
    IF StartsWith(Lower(cleaned), <<"d", "e", "v", "_">>) THEN DropFirst(cleaned, 4) ELSE cleaned

\* a build that forgets the .upper() of the formatted address
DM_FormatNoUpper(hex_only) == JoinPairs(hex_only, 1)

DM_Format(hex_only) == Upper(JoinPairs(hex_only, 1))

DM_normalize_bt_address(value) ==
    LET stripped == Strip(value)
        replaced == ReplaceChar(ReplaceChar(ReplaceChar(stripped, "-", ":"), ".", ":"), "/", ":")
        noprefix == DM_StripDevPrefix(replaced)
        cleaned  == RemoveSpace(ReplaceChar(noprefix, "_", ":"))
        hex_only == HexOnly(cleaned)
    IN  IF stripped = <<>> THEN Err("Bluetooth address required")
        ELSE IF Len(hex_only) # AddrHexLen
             THEN Err("Bluetooth address must be 12 hex characters (e.g. AA:BB:CC:DD:EE:FF)")
             ELSE Ok(DM_Format(hex_only))

(***************************************************************************)
(* BluetoothController._normalize_bt_address                               *)
(***************************************************************************)
\* re.sub(r'(?i)^(dev[_:-]?|device[_:-]?|bluetooth:)', '', s): the first
\* alternative wins whenever s starts with "dev", so "device" is never matched
\* as a whole.
BT_StripPrefix(s) ==
    IF StartsWith(Lower(s), <<"d", "e", "v">>)
    THEN IF Len(s) >= 4 /\ s[4] \in {"_", ":", "-"} THEN DropFirst(s, 4) ELSE DropFirst(s, 3)
    ELSE IF StartsWith(Lower(s), <<"b", "l", "u", "e", "t", "o", "o", "t", "h", ":">>)
    THEN DropFirst(s, 10)
    ELSE s

BT_normalize_bt_address(address) ==
    LET s       == BT_StripPrefix(Strip(address))
        hex_str == HexOnly(s)
        joined  == Concat(HexRuns(s, <<>>))
    IN  IF address = <<>> THEN Err("empty bluetooth address")
        ELSE IF Len(hex_str) = AddrHexLen THEN Ok(Upper(JoinPairs(hex_str, 1)))
        ELSE IF Len(joined) = AddrHexLen THEN Ok(Upper(JoinPairs(joined, 1)))
        ELSE Ok(Upper(s))

(***************************************************************************)
(* Python values of unknown type (the fields of a request payload) carry   *)
(* their type: str, int, bool or None.  A dict is a function on its keys.  *)
(***************************************************************************)
VStr(s) == [t |-> "str", v |-> s]
VInt(n) == [t |-> "int", v |-> n]
VBool(b) == [t |-> "bool", v |-> b]
VNone == [t |-> "none"]
\* a dict value; its keys are kept as the domain of a function
VDict(d) == [t |-> "dict", v |-> [k \in DOMAIN d |-> d[k]]]
VList(l) == [t |-> "list", v |-> l]

EmptyDict == [k \in {} |-> VNone]

\* d[k] = v
Put(d, k, v) == [x \in DOMAIN d \cup {k} |-> IF x = k THEN v ELSE d[x]]

\* d.pop(k, None)
Remove(d, k) == [x \in DOMAIN d \ {k} |-> d[x]]

\* d.update(e)
Update(d, e) == [x \in DOMAIN d \cup DOMAIN e |-> IF x \in DOMAIN e THEN e[x] ELSE d[x]]

\* raw.get(k) on a payload dict
Get(raw, k) == IF k \in DOMAIN raw THEN raw[k] ELSE VNone

\* bool(x)
Truthy(x) ==
    CASE x.t = "none" -> FALSE
      [] x.t = "str"  -> x.v # <<>>
      [] x.t = "int"  -> x.v # 0
      [] x.t = "bool" -> x.v
      [] x.t = "dict" -> DOMAIN x.v # {}
      [] x.t = "list" -> x.v # <<>>

\* a or b
OrElse(a, b) == IF Truthy(a) THEN a ELSE b

DigitSeq == <<"0", "1", "2", "3", "4", "5", "6", "7", "8", "9">>

RECURSIVE NatToStr(_)
NatToStr(n) == IF n < 10 THEN <<DigitSeq[n + 1]>> ELSE NatToStr(n \div 10) \o <<DigitSeq[(n % 10) + 1]>>

\* str(x)
Str(x) ==
    CASE x.t = "none" -> <<"N", "o", "n", "e">>
      [] x.t = "str"  -> x.v
      [] x.t = "int"  -> IF x.v < 0 THEN <<"-">> \o NatToStr(0 - x.v) ELSE NatToStr(x.v)
      [] x.t = "bool" -> IF x.v THEN <<"T", "r", "u", "e">> ELSE <<"F", "a", "l", "s", "e">>

DigitValue(c) == CHOOSE n \in 0..9 : DigitSeq[n + 1] = c

RECURSIVE DigitsToNat(_, _)
DigitsToNat(s, acc) == IF s = <<>> THEN acc ELSE DigitsToNat(Tail(s), acc * 10 + DigitValue(Head(s)))

\* int() of the digits after the sign
ParseDigits(negative, digits) ==
    IF digits = <<>> \/ \E i \in 1..Len(digits) : digits[i] \notin DigitChars
    THEN Err("ValueError")
    ELSE IF negative THEN Ok(0 - DigitsToNat(digits, 0))
    ELSE Ok(DigitsToNat(digits, 0))

\* int() of a stripped str: an optional sign, then decimal digits
ParseSigned(body) ==
    IF body # <<>> /\ Head(body) \in {"-", "+"}
    THEN ParseDigits(Head(body) = "-", Tail(body))
    ELSE ParseDigits(FALSE, body)

\* int(s) for a str: blanks around are ignored
ParseInt(s) == ParseSigned(Strip(s))

\* int(x) for a value of any type
IntOf(x) ==
    CASE x.t = "none" -> Err("TypeError")
      [] x.t = "str"  -> ParseInt(x.v)
      [] x.t = "int"  -> Ok(x.v)
      [] x.t = "bool" -> Ok(IF x.v THEN 1 ELSE 0)

IsLetter(c) ==
    \E i \in 1..Len(LowerLetters) : LowerLetters[i] = c \/ UpperLetters[i] = c

\* str.title()
Title(s) ==
    [i \in 1..Len(s) |-> IF i = 1 \/ ~IsLetter(s[i - 1]) THEN ToUpper(s[i]) ELSE ToLower(s[i])]

(***************************************************************************)
(* DeviceManager._decode_payload_hex                                       *)
(***************************************************************************)
\* str.replace("0x", "")
RECURSIVE Remove0x(_)
Remove0x(s) ==
    IF s = <<>> THEN <<>>
    ELSE IF StartsWith(s, <<"0", "x">>) THEN Remove0x(DropFirst(s, 2))
    ELSE <<Head(s)>> \o Remove0x(Tail(s))

HexSeparators == {" ", "-", ":", ",", "\n", "\t"}

RECURSIVE HexPairs(_)
HexPairs(s) == IF s = <<>> THEN <<>> ELSE <<SubSeq(s, 1, 2)>> \o HexPairs(DropFirst(s, 2))

\* a build without the length check of line 1186
DecodeCleanedAnyLength(cleaned) ==
    IF \E i \in 1..Len(cleaned) : ~IsHex(cleaned[i]) THEN Err("Invalid hex payload")
    ELSE Ok(cleaned)

\* bytes.fromhex(cleaned) after the length check
DecodeCleaned(cleaned) ==
    IF Len(cleaned) % 2 # 0 THEN Err("Hex payload must have an even number of characters")
    ELSE IF \E i \in 1..Len(cleaned) : ~IsHex(cleaned[i]) THEN Err("Invalid hex payload")
    ELSE Ok(HexPairs(cleaned))

decode_payload_hex(payload_hex) ==
    DecodeCleaned(SelectSeq(Remove0x(payload_hex), LAMBDA ch : ch \notin HexSeparators))

(***************************************************************************)
(* DeviceManager._normalize_command_spec                                   *)
(* The raw specifications of this model carry none of the keys             *)
(* response_bytes, response_timeout, wait_ms, repeat_delay_ms and          *)
(* repeat_delay, whose blocks (lines 903-929, 961-978) are then skipped.   *)
(***************************************************************************)
S_ble == <<"b", "l", "e">>
S_rfcomm == <<"r", "f", "c", "o", "m", "m">>
S_samsung == <<"s", "a", "m", "s", "u", "n", "g">>
S_Click == <<"C", "l", "i", "c", "k">>
S_SendRemoteKey == <<"S", "e", "n", "d", "R", "e", "m", "o", "t", "e", "K", "e", "y">>

RfcommChannelMax == 30

\* str(raw.get(k) or default).strip()
RawStr(raw, k, default) == Strip(Str(OrElse(Get(raw, k), VStr(default))))

\* x is not None and str(x).strip()
HasValue(x) == x.t # "none" /\ Strip(Str(x)) # <<>>

\* if value: spec[k] = value
PutNonEmpty(spec, k, value) == IF value # <<>> THEN Put(spec, k, value) ELSE spec

\* label = str(raw.get("label") or command_id.replace("_", " ").title()).strip()
SpecLabel(raw, command_id) ==
    Strip(Str(OrElse(Get(raw, "label"), VStr(Title(ReplaceChar(command_id, "_", " "))))))

\* the part of the specification every transport has
SpecHead(raw) ==
    [id        |-> RawStr(raw, "id", <<>>),
     label     |-> SpecLabel(raw, RawStr(raw, "id", <<>>)),
     transport |-> Lower(Strip(Str(OrElse(Get(raw, "transport"),
                                          OrElse(Get(raw, "protocol"), VStr(S_ble))))))]

\* payload_hex = str(payload_hex_raw).strip() if payload_hex_raw else ""
PayloadHex(raw) ==
    IF Truthy(Get(raw, "payload_hex")) THEN Strip(Str(Get(raw, "payload_hex"))) ELSE <<>>

\* the payload keys written last
PutPayload(spec, payload_hex, ascii) ==
    IF payload_hex # <<>> THEN Put(spec, "payload_hex", payload_hex)
    ELSE IF ascii.t = "str" /\ ascii.v # <<>> THEN Put(spec, "payload_ascii", ascii.v)
    ELSE Put(spec, "payload_hex", <<>>)

SpecPayload(raw, spec) == PutPayload(spec, PayloadHex(raw), Get(raw, "payload_ascii"))

BleFields(raw, spec, characteristic) ==
    IF characteristic = <<>> THEN Err("Characteristic missing for BLE command")
    ELSE Ok(Put(Put(spec, "characteristic", characteristic),
                "with_response", Truthy(IF "with_response" \in DOMAIN raw
                                        THEN raw["with_response"] ELSE VBool(FALSE))))

BleSpec(raw, spec) == BleFields(raw, spec, Lower(RawStr(raw, "characteristic", <<>>)))

\* spec["rfcomm_channel"] = channel_val, after its checks
PutChannel(spec, channel_raw) ==
    IF HasValue(channel_raw) THEN Put(spec, "rfcomm_channel", ParseInt(Strip(Str(channel_raw))).value)
    ELSE spec

RfcommChecked(spec, has_channel, channel) ==
    IF has_channel /\ ~channel.ok THEN Err("rfcomm_channel must be an integer")
    ELSE IF has_channel /\ (channel.value <= 0 \/ channel.value > RfcommChannelMax)
         THEN Err("rfcomm_channel must be between 1 and 30")
    ELSE IF DOMAIN spec \cap {"rfcomm_channel", "service_uuid", "service_name"} = {}
         THEN Err("RFCOMM command requires rfcomm_channel, service_uuid, or service_name")
    ELSE Ok(spec)

RfcommFields(raw, spec, channel_raw) ==
    RfcommChecked(PutNonEmpty(PutNonEmpty(PutChannel(spec, channel_raw),
                                          "service_uuid", Lower(RawStr(raw, "service_uuid", <<>>))),
                              "service_name", RawStr(raw, "service_name", <<>>)),
                  HasValue(channel_raw), ParseInt(Strip(Str(channel_raw))))

RfcommSpec(raw, spec) == RfcommFields(raw, spec, Get(raw, "rfcomm_channel"))

\* if option_value is not None: spec["option"] = option_value
PutOption(spec, option_value) ==
    IF option_value.t # "none" THEN Put(spec, "option", option_value) ELSE spec

\* spec["repeat"] = repeat_int, after its checks
PutRepeat(spec, repeat_value) ==
    IF HasValue(repeat_value) THEN Put(spec, "repeat", IntOf(repeat_value).value) ELSE spec

\* if override: spec[k] = str(override)
PutOverride(spec, k, override) ==
    IF Truthy(override) THEN Put(spec, k, Str(override)) ELSE spec

\* the checks of the samsung branch; no payload of the model carries repeat_delay_ms or
\* repeat_delay, so lines 961-978 add nothing to spec
SamsungChecked(spec, key_code, has_repeat, repeat_int) ==
    IF key_code = <<>> THEN Err("Samsung command missing key")
    ELSE IF has_repeat /\ ~repeat_int.ok THEN Err("repeat must be an integer")
    ELSE IF has_repeat /\ repeat_int.value <= 0 THEN Err("repeat must be >= 1")
    ELSE Ok(spec)

\* key_code = str(raw.get("key") or raw.get("key_code") or raw.get("data_of_cmd")
\*                or raw.get("data") or "").strip().upper()
SamsungKey(raw) ==
    Upper(Strip(Str(OrElse(Get(raw, "key"), OrElse(Get(raw, "key_code"),
              OrElse(Get(raw, "data_of_cmd"), OrElse(Get(raw, "data"), VStr(<<>>))))))))

SamsungFields(raw, spec, key_code, repeat_value) ==
    SamsungChecked(
        PutOverride(
            PutOverride(
                PutRepeat(
                    PutNonEmpty(
                        PutOption(
                            PutNonEmpty(Put(spec, "key", key_code), "cmd",
                                        Strip(Str(OrElse(Get(raw, "cmd"),
                                                         OrElse(Get(raw, "action"), VStr(S_Click)))))),
                            Get(raw, "option")),
                        "remote_type",
                        Strip(Str(OrElse(Get(raw, "remote_type"),
                                         OrElse(Get(raw, "type_of_remote"), VStr(S_SendRemoteKey)))))),
                    repeat_value),
                "token", Get(raw, "token")),
            "ip", OrElse(Get(raw, "ip"), Get(raw, "host"))),
        key_code, HasValue(repeat_value), IntOf(repeat_value))

SamsungSpec(raw, spec) == SamsungFields(raw, spec, SamsungKey(raw), Get(raw, "repeat"))

\* the branch of the transport
SpecBody(raw, head) ==
    IF head.transport = S_ble THEN BleSpec(raw, head)
    ELSE IF head.transport = S_rfcomm THEN RfcommSpec(raw, head)
    ELSE SamsungSpec(raw, head)

SpecFinish(raw, body) == IF ~body.ok THEN body ELSE Ok(SpecPayload(raw, body.value))

\* self._decode_payload_hex(payload_hex) raises or its result is dropped
HexChecked(raw, head, decoded) ==
    IF ~decoded.ok THEN decoded ELSE SpecFinish(raw, SpecBody(raw, head))

SpecChecked(raw, head, payload_hex, ascii) ==
    IF head.id = <<>> THEN Err("Command id missing")
    ELSE IF head.transport \notin {S_ble, S_rfcomm, S_samsung} THEN Err("Unsupported command transport")
    ELSE IF ascii.t \notin {"none", "str"} THEN Err("payload_ascii must be a string")
    ELSE IF payload_hex # <<>> THEN HexChecked(raw, head, decode_payload_hex(payload_hex))
    ELSE SpecFinish(raw, SpecBody(raw, head))

normalize_command_spec(raw) ==
    SpecChecked(raw, SpecHead(raw), PayloadHex(raw), Get(raw, "payload_ascii"))

(***************************************************************************)
(* DeviceManager._normalize_command_list: a dict keyed by id, so a later   *)
(* specification replaces an earlier one with the same id in its place.    *)
(***************************************************************************)
RECURSIVE UpsertById(_, _)
UpsertById(list, spec) ==
    IF list = <<>> THEN <<spec>>
    ELSE IF Head(list)["id"] = spec["id"] THEN <<spec>> \o Tail(list)
    ELSE <<Head(list)>> \o UpsertById(Tail(list), spec)

\* a build in which an entry that fails validation discards what was collected so far
UpsertOrDiscard(normalized, spec) == IF spec.ok THEN UpsertById(normalized, spec.value) ELSE <<>>

\* except ValueError: continue; else normalized[spec["id"]] = spec
UpsertIfOk(normalized, spec) == IF spec.ok THEN UpsertById(normalized, spec.value) ELSE normalized

RECURSIVE NormalizeEntries(_, _)
NormalizeEntries(commands, normalized) ==
    IF commands = <<>> THEN normalized
    ELSE NormalizeEntries(Tail(commands), UpsertIfOk(normalized, normalize_command_spec(Head(commands))))

normalize_command_list(commands) == NormalizeEntries(commands, <<>>)


(***************************************************************************)
(* State                                                                   *)
(***************************************************************************)
VARIABLES
    addrIn,         \* the raw address handed to the normalisers, by construction
    addrDM,         \* result of DeviceManager._normalize_bt_address, NoResult before the call
    addrBT,         \* result of BluetoothController._normalize_bt_address, NoResult before the call
    specIn,         \* the raw command specification handed to _normalize_command_spec, by construction
    normalizedSpec, \* result of _normalize_command_spec, NoResult before the call
    resolveIn,      \* the capabilities and the identifier handed to _resolve_rfcomm_channel, by construction
    resolved,       \* result of _resolve_rfcomm_channel, NoResult before the call
    rfcommCall,     \* a call of classic_rfcomm.send_command: its arguments, position and locals
    performIn,      \* the capabilities and the command handed to _perform_rfcomm_command, by construction
    performed,      \* the channel _perform_rfcomm_command settles on or its error, NoResult before the call
    bluez,          \* BluetoothController._agent_ready and _agent_lock, and the registrations made
    pairCall,       \* the pair_and_trust call of each caller: its position, locals and subprocess runs
    devices,        \* DeviceManager.devices: device id -> Device
    dicts,          \* the metadata dict objects; a Device holds the index of its dict
    persisted,      \* the content of state/devices.json, NoFile before the first write
    environ,        \* OMNICONTROL_DISPLAY_BT_ADDR and OMNICONTROL_DISPLAY_POWER_CHAR, "" if unset
    done,           \* history: the latest operation of the hub that returned or raised
    pairing_jobs,   \* DeviceManager._pairing_jobs: job id -> record
    task,           \* the _job() task of each pairing job: its position and its locals
    issued,         \* number of inline commands received so far
    call,           \* the handler of each client's command: its position and its locals
    locks,          \* SamsungRemoteController._locks: ip -> whether the lock is held
    sockets,        \* SamsungRemoteController._sockets: ip -> websocket
    socket_connected, \* SamsungRemoteController._socket_connected: ip -> bool
    websockets,     \* the websocket objects opened so far, each with its closed flag and the
                    \* numbers of ms.channel.connect frames sent on it and of
                    \* handshakes on it that were answered 'unauthorized'
    last,           \* history: the latest finished send_key call of each ip
    yielded         \* history: what the latest exchanges of each device said about its token

addrVars == <<addrIn, addrDM, addrBT>>
normVars == <<specIn, normalizedSpec>>
resolveVars == <<resolveIn, resolved>>
\* the inputs and results of the functions that are applied on their own
performVars == <<performIn, performed>>
bluezVars == <<bluez, pairCall>>
functionVars == <<addrVars, normVars, resolveVars, rfcommCall, performVars, bluezVars>>
hubVars == <<environ, done>>
registryVars == <<devices, dicts, persisted>>
jobVars == <<pairing_jobs, task>>
controllerVars == <<locks, sockets, socket_connected, websockets>>
samsungVars == <<issued, call, locks, sockets, socket_connected, websockets, last, yielded>>

vars == <<addrIn, addrDM, addrBT, specIn, normalizedSpec, resolveIn, resolved, rfcommCall,
          performIn, performed, bluez, pairCall, devices, dicts, persisted, environ, done,
          pairing_jobs, task,
          issued, call, locks, sockets, socket_connected, websockets, last, yielded>>

STATE_VERSION == 1

\* state/devices.json: whether it exists, whether json.loads gives a dict, its version,
\* whether its devices are a list, the entries that have an id (by id), and the number
\* of entries that have none
StoreFile(exists, json, version, list, entries, anonymous) ==
    [exists |-> exists, json |-> json, version |-> version, list |-> list,
     devices |-> entries, anonymous |-> anonymous]

\* not self._state_path.exists()
NoFile == StoreFile(FALSE, FALSE, 0, FALSE, EmptyDict, 0)

\* no variable is set in the environment; no operation of the hub has run
HubIdle == environ = [address |-> <<>>, power_char |-> <<>>] /\ done = [op |-> "none", ops |-> 0]

\* no specification is handed to _normalize_command_spec on its own
NormIdle == specIn = 0 /\ normalizedSpec = [called |-> FALSE]

\* no rfcomm command is performed on its own
PerformIdle == performIn = 0 /\ performed = [called |-> FALSE]

\* no caller pairs on its own
BluezIdle == bluez = [ready |-> FALSE] /\ pairCall = <<>>

\* no channel is resolved on its own
ResolveIdle == resolveIn = 0 /\ resolved = [called |-> FALSE]

\* classic_rfcomm.send_command is not called on its own
RfcommIdle == rfcommCall = [pc |-> "none"]

\* SamsungRemoteController.__init__, and no command received
SamsungIdle ==
    /\ issued = 0
    /\ call = EmptyDict
    /\ locks = EmptyDict
    /\ sockets = EmptyDict
    /\ socket_connected = EmptyDict
    /\ websockets = <<>>
    /\ last = EmptyDict
    /\ yielded = EmptyDict

(***************************************************************************)
(* Inputs of the address normalisers: a prefix, a run of hex digits cut    *)
(* into octets by a separator, optionally padded with blanks.              *)
(***************************************************************************)
PatternA == <<"a", "a", "b", "b", "c", "c", "d", "d", "e", "e", "f", "f">>
PatternB == <<"0", "1", "D", "e", "4", "5", "6", "7", "8", "9", "A", "b">>

DigitsOf(pattern, n) == [i \in 1..n |-> pattern[((i - 1) % Len(pattern)) + 1]]

DigitLengths == {0} \cup ((AddrHexLen - MaxExtra)..(AddrHexLen + MaxExtra))

DigitSeqs ==
    UNION {{DigitsOf(PatternA, n), Upper(DigitsOf(PatternA, n)), DigitsOf(PatternB, n)} : n \in DigitLengths}

DevPrefixes == {<<"d", "e", "v", "_">>, <<"D", "E", "V", "_">>, <<"D", "e", "v", "_">>}
OtherPrefixes == {<<"d", "e", "v", "-">>, <<"d", "e", "v", ":">>, <<"d", "e", "v">>,
                  <<"d", "e", "v", "i", "c", "e", "_">>, <<"z", "z">>}
Prefixes == {<<>>} \cup DevPrefixes \cup OtherPrefixes

AcceptedSeparators == {<<>>, <<":">>, <<"-">>, <<"_">>}
Separators == AcceptedSeparators \cup {<<".">>, <<"/">>, <<" ">>}

AddrInputs == [prefix : Prefixes, digits : DigitSeqs, sep : Separators, pad : BOOLEAN]

RECURSIVE SepJoin(_, _, _)
SepJoin(h, i, sep) ==
    IF i > Len(h) THEN <<>>
    ELSE (IF i > 1 /\ i % 2 = 1 THEN sep ELSE <<>>) \o <<h[i]>> \o SepJoin(h, i + 1, sep)

Raw(in) ==
    LET body == in.prefix \o SepJoin(in.digits, 1, in.sep)
    IN  IF in.pad THEN <<" ">> \o body \o <<" ", " ">> ELSE body

\* the forms the documentation lists: bare, underscore-, dash- or
\* colon-separated, with or without a dev_ prefix
AcceptedForm(in) == in.prefix \in {<<>>} \cup DevPrefixes /\ in.sep \in AcceptedSeparators

\* the canonical address of twelve digits, written out octet by octet
Canonical(d) ==
    <<ToUpper(d[1]), ToUpper(d[2]), ":", ToUpper(d[3]), ToUpper(d[4]), ":",
      ToUpper(d[5]), ToUpper(d[6]), ":", ToUpper(d[7]), ToUpper(d[8]), ":",
      ToUpper(d[9]), ToUpper(d[10]), ":", ToUpper(d[11]), ToUpper(d[12])>>

(***************************************************************************)
(* Address normalisation as a system: one input, each normaliser applied   *)
(***************************************************************************)
AddrInit ==
    /\ addrIn \in AddrInputs
    /\ addrDM = NoResult
    /\ addrBT = NoResult
    /\ devices = EmptyDict
    /\ dicts = <<>>
    /\ persisted = NoFile
    /\ pairing_jobs = EmptyDict
    /\ task = EmptyDict
    /\ PerformIdle
    /\ BluezIdle
    /\ SamsungIdle
    /\ NormIdle
    /\ ResolveIdle
    /\ RfcommIdle
    /\ HubIdle

NormalizeDM ==
    /\ addrDM = NoResult
    /\ addrDM' = DM_normalize_bt_address(Raw(addrIn))
    /\ UNCHANGED <<addrIn, addrBT, normVars, resolveVars, rfcommCall, performVars, bluezVars,
                 registryVars, hubVars, jobVars, samsungVars>>

NormalizeBT ==
    /\ addrBT = NoResult
    /\ addrBT' = BT_normalize_bt_address(Raw(addrIn))
    /\ UNCHANGED <<addrIn, addrDM, normVars, resolveVars, rfcommCall, performVars, bluezVars,
                 registryVars, hubVars, jobVars, samsungVars>>

AddrNext == NormalizeDM \/ NormalizeBT

SpecAddr == AddrInit /\ [][AddrNext]_vars

(***************************************************************************)
(* Device registry                                                         *)
(***************************************************************************)
S_Unassigned == <<"U", "n", "a", "s", "s", "i", "g", "n", "e", "d">>
S_Display == <<"D", "i", "s", "p", "l", "a", "y">>
S_blePrefix == <<"b", "l", "e", "-">>

\* datetime.utcnow().isoformat(): the model keeps no clock
Timestamp == "utcnow"

\* metadata.get(k, default)
MGet(md, k, default) == IF k \in DOMAIN md THEN md[k] ELSE default

\* bool(metadata.get(k, False)) for the pairing flags
MFlag(md, k) == k \in DOMAIN md /\ md[k] = TRUE

\* asdict(self) with the keys to_dict adds
FullDict(device, md) ==
    [id |-> device.id, name |-> device.name, type |-> device.type, room |-> device.room,
     protocols |-> device.protocols, integrations |-> device.integrations,
     status |-> device.status, last_seen |-> device.last_seen, firmware |-> device.firmware,
     address |-> device.address, metadata |-> md, capabilities |-> device.capabilities,
     paired |-> MFlag(md, "paired"), trusted |-> MFlag(md, "trusted")]

\* Device.to_dict: an address that is None is left out
ToDict(device, heap) ==
    IF device.address = NoAddress
    THEN Remove(FullDict(device, heap[device.metadata]), "address")
    ELSE FullDict(device, heap[device.metadata])

\* DeviceManager._persist_devices: the whole file is rewritten
PersistDevices(devs, heap) ==
    StoreFile(TRUE, TRUE, STATE_VERSION, TRUE, [id \in DOMAIN devs |-> ToDict(devs[id], heap)], 0)

(***************************************************************************)
(* Pairing requests                                                        *)
(***************************************************************************)
\* at most MaxJobs pairing jobs are started
MaxJobs == 2

S_power_on == <<"p", "o", "w", "e", "r", "_", "o", "n">>
S_power_off == <<"p", "o", "w", "e", "r", "_", "o", "f", "f">>
S_input == <<"i", "n", "p", "u", "t">>
S_ff01 == <<"0", "0", "0", "0", "F", "F", "0", "1">>
S_tv == <<"t", "v">>

Cmd_power_on ==
    [id |-> VStr(S_power_on), transport |-> VStr(S_ble), characteristic |-> VStr(S_ff01),
     payload_hex |-> VStr(<<"0", "1">>)]
Cmd_power_on_again ==
    [id |-> VStr(<<" ">> \o S_power_on), characteristic |-> VStr(S_ff01),
     payload_hex |-> VStr(<<"0", "x", "0", "2">>), with_response |-> VBool(TRUE)]
Cmd_power_off ==
    [id |-> VStr(S_power_off), transport |-> VStr(<<"B", "L", "E">>), characteristic |-> VStr(S_ff01),
     payload_ascii |-> VStr(<<"o", "f", "f">>)]
Cmd_input ==
    [id |-> VStr(S_input), transport |-> VStr(S_rfcomm), rfcomm_channel |-> VStr(<<" ", "3">>)]
Cmd_no_characteristic == [id |-> VStr(<<"x">>), transport |-> VStr(S_ble)]
Cmd_odd_hex ==
    [id |-> VStr(<<"y">>), characteristic |-> VStr(S_ff01), payload_hex |-> VStr(<<"0", "1", "2">>)]

AddrDashed == [prefix |-> <<>>, digits |-> DigitsOf(PatternA, AddrHexLen), sep |-> <<"-">>, pad |-> FALSE]
AddrDevUpper ==
    [prefix |-> <<"D", "E", "V", "_">>, digits |-> Upper(DigitsOf(PatternA, AddrHexLen)),
     sep |-> <<":">>, pad |-> TRUE]
AddrBare == [prefix |-> <<>>, digits |-> DigitsOf(PatternB, AddrHexLen), sep |-> <<>>, pad |-> FALSE]
AddrUnderscore == [prefix |-> <<>>, digits |-> DigitsOf(PatternA, AddrHexLen), sep |-> <<"_">>, pad |-> FALSE]
AddrShort == [prefix |-> <<>>, digits |-> DigitsOf(PatternA, AddrHexLen - 1), sep |-> <<"-">>, pad |-> FALSE]
AddrMissing == [prefix |-> <<>>, digits |-> <<>>, sep |-> <<>>, pad |-> TRUE]

\* a request: the address by construction, the optional fields, the commands
Payloads ==
    { [addr |-> AddrDevUpper, opts |-> EmptyDict, commands |-> <<Cmd_power_on, Cmd_power_on_again>>],
      [addr |-> AddrBare, opts |-> [device_id |-> VStr(<<" ">> \o S_tv), name |-> VStr(<<"T", "V">>)],
       commands |-> <<Cmd_power_on, Cmd_no_characteristic, Cmd_input, Cmd_power_off,
                      Cmd_odd_hex, Cmd_power_on_again>>],
      [addr |-> AddrUnderscore, opts |-> [device_id |-> VStr(S_tv)], commands |-> <<Cmd_power_off>>],
      [addr |-> AddrShort, opts |-> EmptyDict, commands |-> <<Cmd_power_on>>],
      [addr |-> AddrMissing, opts |-> EmptyDict, commands |-> <<>>] }

\* what bluetooth.inspect_classic_capabilities returns: {} or a summary
CapsNone == EmptyDict
CapsAudio == [profiles |-> {"audio_sink", "avrcp_target"}, services |-> <<>>]
InspectResults == {CapsNone, CapsAudio}

(***************************************************************************)
(* DeviceManager.start_pairing_job and the records of _pairing_jobs        *)
(***************************************************************************)
NoDeviceId == <<>>

NewJob ==
    [status |-> "pending", device_id |-> NoDeviceId, error |-> None,
     started_at |-> Timestamp, finished_at |-> None]

\* a build whose _job() stamps finished_at when it starts
JobInProgressStamped(job) ==
    [job EXCEPT !["status"] = "in-progress", !["finished_at"] = Timestamp]

\* self._pairing_jobs[job_id]["status"] = "in-progress"
JobInProgress(job) == [job EXCEPT !["status"] = "in-progress"]

\* a build that leaves the finally block out
JobSuccessUnfinished(job, device_id) ==
    Update(job, [status |-> "success", device_id |-> device_id])

\* record["status"] = "success", record["device_id"] = device.id, and the finally block
JobSuccess(job, device_id) ==
    Update(job, [status |-> "success", device_id |-> device_id, finished_at |-> Timestamp])

\* a build that puts a failed job back in the queue
JobFailedRequeued(job, error) ==
    Update(job, [status |-> "pending", error |-> error, traceback |-> "tb",
                 finished_at |-> Timestamp])

\* the except branch of _job() and the finally block
JobFailed(job, error) ==
    Update(job, [status |-> "failed", error |-> error, traceback |-> "tb",
                 finished_at |-> Timestamp])

\* DeviceManager.get_pairing_job
get_pairing_job(job_id) == IF job_id \in DOMAIN pairing_jobs THEN pairing_jobs[job_id] ELSE None

NewTask(payload) ==
    [pc |-> "scheduled", payload |-> payload, device_id |-> NoDeviceId, address |-> <<>>,
     metadata |-> 0, commands |-> <<>>, was_paired |-> FALSE, called_pair |-> FALSE,
     inspection |-> "none"]

\* job_id = str(uuid.uuid4()): a fresh id
StartPairingJob(payload) ==
    /\ Cardinality(DOMAIN pairing_jobs) < MaxJobs
    /\ LET job_id == Cardinality(DOMAIN pairing_jobs) + 1
       IN  /\ pairing_jobs' = Put(pairing_jobs, job_id, NewJob)
           /\ task' = Put(task, job_id, NewTask(payload))
    /\ UNCHANGED <<functionVars, hubVars, registryVars, samsungVars>>

(***************************************************************************)
(* DeviceManager.pair_bluetooth_device, run by _job(); one action per      *)
(* stretch of code between two awaits                                      *)
(***************************************************************************)
\* the task ends in the except branch and the finally block
JobRaises(j, error) ==
    /\ pairing_jobs' = [pairing_jobs EXCEPT ![j] = JobFailed(JobInProgress(@), error)]
    /\ task' = [task EXCEPT ![j].pc = "done"]

\* a build that pairs on every call
NeedsPairingAlways(md) == TRUE

\* if not metadata.get("paired") or not metadata.get("trusted")
NeedsPairing(md) == ~MFlag(md, "paired") \/ ~MFlag(md, "trusted")

\* device_id = payload device_id, or "ble-" and the address in lower case without colons
PairDeviceId(opts, address) ==
    LET given == Strip(Str(OrElse(Get(opts, "device_id"), VStr(<<>>))))
    IN  IF given # <<>> THEN given
        ELSE S_blePrefix \o SelectSeq(Lower(address), LAMBDA c : c # ":")

NewDevice(device_id, name, device_type, room, address, ref) ==
    [id |-> device_id, name |-> name, type |-> device_type, room |-> room,
     protocols |-> {"bluetooth"}, integrations |-> {"scene"}, status |-> "offline",
     last_seen |-> "Never", firmware |-> "Unknown", address |-> address,
     metadata |-> ref, capabilities |-> EmptyDict]

\* lines 473-490, the part of pair_bluetooth_device that reads the payload only
PairArguments(payload) ==
    LET address_raw == Strip(Str(OrElse(VStr(Raw(payload.addr)), VStr(<<>>))))
        address     == DM_normalize_bt_address(address_raw)
        name_or     == IF address.ok THEN address.value ELSE <<>>
    IN  [address_raw |-> address_raw,
         address     |-> address,
         device_id   |-> PairDeviceId(payload.opts, name_or),
         name        |-> Str(OrElse(Get(payload.opts, "name"), VStr(name_or))),
         room        |-> Str(OrElse(Get(payload.opts, "room"), VStr(S_Unassigned))),
         device_type |-> Str(OrElse(Get(payload.opts, "type"), VStr(S_Display))),
         normalized  |-> normalize_command_list(payload.commands)]

\* PairArguments of each request the model makes
PairRequest == [payload \in Payloads |-> PairArguments(payload)]

\* lines 492-519: the registry entry is made or updated before pairing starts;
\* the result is the registry, the heap of metadata dicts and the task's locals
PairBegin(j, args) ==
    LET device_id   == args.device_id
        address     == args.address.value
        exists      == device_id \in DOMAIN devices
        heap1       == IF exists THEN dicts ELSE Append(dicts, EmptyDict)
        device      == IF exists THEN devices[device_id]
                       ELSE NewDevice(device_id, args.name, args.device_type, args.room,
                                      address, Len(heap1))
        \* metadata = device.metadata or {}
        own         == heap1[device.metadata] = EmptyDict
        heap2       == IF own THEN Append(heap1, EmptyDict) ELSE heap1
        ref         == IF own THEN Len(heap2) ELSE device.metadata
        needs       == NeedsPairing(heap2[ref])
    IN  [raised  |-> FALSE,
         devices |-> Put(devices, device_id,
                         [device EXCEPT !.name = args.name, !.room = args.room,
                                        !.type = args.device_type,
                                        !.address = address,
                                        !.protocols = @ \cup {"bluetooth"},
                                        !.integrations = @ \cup {"scene"}]),
         dicts   |-> heap2,
         task    |-> [task[j] EXCEPT !.pc = IF needs THEN "pair_and_trust" ELSE "inspect",
                                     !.device_id = device_id, !.address = address,
                                     !.metadata = ref, !.commands = args.normalized,
                                     !.was_paired = MFlag(heap2[ref], "paired") /\ MFlag(heap2[ref], "trusted"),
                                     !.called_pair = needs]]

\* lines 473-480: the address is required and must normalise
PairStart(j) ==
    LET args == PairRequest[task[j].payload]
    IN  IF args.address_raw = <<>>
        THEN [raised |-> TRUE, error |-> "Bluetooth address required for pairing"]
        ELSE IF ~args.address.ok
        THEN [raised |-> TRUE, error |-> args.address.error]
        ELSE PairBegin(j, args)

\* the task starts: status in-progress, then pair_bluetooth_device up to its first await
JobRun(j) ==
    /\ j \in DOMAIN task /\ task[j].pc = "scheduled"
    /\ LET begun == PairStart(j)
       IN  IF begun.raised
           THEN JobRaises(j, begun.error) /\ UNCHANGED registryVars
           ELSE /\ devices' = begun.devices
                /\ dicts' = begun.dicts
                /\ task' = [task EXCEPT ![j] = begun.task]
                /\ pairing_jobs' = [pairing_jobs EXCEPT ![j] = JobInProgress(@)]
                /\ UNCHANGED persisted
    /\ UNCHANGED <<functionVars, hubVars, samsungVars>>

\* await self.bluetooth.pair_and_trust(address) returns or raises
PairAndTrustReturn(j) ==
    /\ j \in DOMAIN task /\ task[j].pc = "pair_and_trust"
    /\ \E paired \in BOOLEAN :
          IF paired
          THEN /\ dicts' = [dicts EXCEPT ![task[j].metadata] =
                              Update(@, [paired |-> TRUE, paired_at |-> Timestamp,
                                         trusted |-> TRUE, trusted_at |-> Timestamp,
                                         pair_agent |-> "NoInputNoOutput"])]
               /\ task' = [task EXCEPT ![j].pc = "inspect"]
               /\ UNCHANGED <<devices, persisted, pairing_jobs>>
          ELSE /\ JobRaises(j, "Pairing failed: " \o "bluetoothctl pair failed")
               /\ UNCHANGED registryVars
    /\ UNCHANGED <<functionVars, hubVars, samsungVars>>

IsRfcomm(cmd) == Lower(MGet(cmd, "transport", S_ble)) = S_rfcomm

\* lines 532-558 on the metadata dict
PairMetadata(md, caps, commands) ==
    LET ble_commands     == SelectSeq(commands, LAMBDA cmd : ~IsRfcomm(cmd))
        classic_commands == SelectSeq(commands, IsRfcomm)
        md1 == IF caps # EmptyDict THEN Put(md, "classic_capabilities", caps) ELSE md
        md2 == IF ble_commands # <<>> THEN Put(md1, "ble_commands", ble_commands)
               ELSE IF "ble_commands" \notin DOMAIN md1 THEN Put(md1, "ble_commands", <<>>)
               ELSE md1
        md3 == IF classic_commands # <<>> THEN Put(md2, "classic_commands", classic_commands) ELSE md2
    IN  Update(md3, [paired |-> TRUE, paired_at |-> MGet(md3, "paired_at", Timestamp),
                     trusted |-> MGet(md3, "trusted", FALSE),
                     trusted_at |-> MGet(md3, "trusted_at", None)])

\* lines 534-540 on device.capabilities
PairCapabilities(capabilities, caps) ==
    LET classic == Update(MGet(capabilities, "classic", EmptyDict), caps)
        c1      == Put(capabilities, "classic", classic)
        media   == Update(MGet(c1, "media", EmptyDict),
                          [avrcp |-> {"avrcp_controller", "avrcp_target"} \cap caps.profiles # {},
                           audio_sink |-> "audio_sink" \in caps.profiles,
                           handsfree |-> {"handsfree_gateway", "headset_gateway"} \cap caps.profiles # {}])
    IN  IF caps = EmptyDict THEN capabilities
        ELSE IF caps.profiles = {} THEN c1
        ELSE Put(c1, "media", media)

\* a build whose persist writes the entry of the operation's own device only
InspectReturnOwnEntry(j) ==
    /\ j \in DOMAIN task /\ task[j].pc = "inspect"
    /\ \E caps \in InspectResults :
          LET ref       == task[j].metadata
              device_id == task[j].device_id
              heap      == [dicts EXCEPT ![ref] = PairMetadata(@, caps, task[j].commands)]
              devs      == [devices EXCEPT ![device_id].metadata = ref,
                                           ![device_id].capabilities = PairCapabilities(@, caps)]
          IN  /\ dicts' = heap
              /\ devices' = devs
              /\ persisted' = PersistDevices([id \in {device_id} |-> devs[id]], heap)
              /\ pairing_jobs' = [pairing_jobs EXCEPT ![j] = JobSuccess(@, devs[device_id].id)]
              /\ task' = [task EXCEPT ![j].pc = "done",
                                      ![j].inspection = IF caps = EmptyDict THEN "empty"
                                                        ELSE "summary"]
    /\ UNCHANGED <<functionVars, hubVars, samsungVars>>

\* await asyncio.to_thread(inspect_classic_capabilities) raises (subprocess.run ends
\* with an error other than FileNotFoundError and TimeoutExpired), returns {} (tool
\* missing, timeout, no output) or returns a summary; the rest of
\* pair_bluetooth_device and of _job() has no await
InspectReturn(j) ==
    /\ j \in DOMAIN task /\ task[j].pc = "inspect"
    /\ \/ /\ pairing_jobs' = [pairing_jobs EXCEPT ![j] =
                                  JobFailed(JobInProgress(@), "[Errno 13] Permission denied: 'sdptool'")]
          /\ task' = [task EXCEPT ![j].pc = "done", ![j].inspection = "raised"]
          /\ UNCHANGED registryVars
       \/ \E caps \in InspectResults :
             LET ref       == task[j].metadata
                 device_id == task[j].device_id
                 heap      == [dicts EXCEPT ![ref] = PairMetadata(@, caps, task[j].commands)]
                 devs      == [devices EXCEPT ![device_id].metadata = ref,
                                              ![device_id].capabilities = PairCapabilities(@, caps)]
             IN  /\ dicts' = heap
                 /\ devices' = devs
                 /\ persisted' = PersistDevices(devs, heap)
                 /\ pairing_jobs' = [pairing_jobs EXCEPT ![j] = JobSuccess(@, devs[device_id].id)]
                 /\ task' = [task EXCEPT ![j].pc = "done",
                                         ![j].inspection = IF caps = EmptyDict THEN "empty"
                                                           ELSE "summary"]
    /\ UNCHANGED <<functionVars, hubVars, samsungVars>>

PairInit ==
    /\ addrIn = AddrDashed
    /\ addrDM = NoResult
    /\ addrBT = NoResult
    /\ devices = EmptyDict
    /\ dicts = <<>>
    /\ persisted = NoFile
    /\ pairing_jobs = EmptyDict
    /\ task = EmptyDict
    /\ PerformIdle
    /\ BluezIdle
    /\ SamsungIdle
    /\ NormIdle
    /\ ResolveIdle
    /\ RfcommIdle
    /\ HubIdle

JobIds == 1..MaxJobs

PairNext ==
    \/ \E payload \in Payloads : StartPairingJob(payload)
    \/ \E j \in JobIds : JobRun(j)
    \/ \E j \in JobIds : PairAndTrustReturn(j)
    \/ \E j \in JobIds : InspectReturn(j)

SpecPair == PairInit /\ [][PairNext]_vars

\* the next step of the task of job j
TaskStep(j) == JobRun(j) \/ PairAndTrustReturn(j) \/ InspectReturn(j)

\* the event loop runs every scheduled task and every await of the pairing returns
FairSpecPair == SpecPair /\ \A j \in JobIds : WF_vars(TaskStep(j))

(***************************************************************************)
(* SamsungRemoteController: what a drain reads from the websocket          *)
(***************************************************************************)
S_unauthorized == <<"u", "n", "a", "u", "t", "h", "o", "r", "i", "z", "e", "d">>
S_forbidden == <<"f", "o", "r", "b", "i", "d", "d", "e", "n">>
S_denied == <<"d", "e", "n", "i", "e", "d">>
S_Unauthorized == <<"U", "n", "a", "u", "t", "h", "o", "r", "i", "z", "e", "d">>
S_AccessDenied == <<"A", "c", "c", "e", "s", "s", " ", "d", "e", "n", "i", "e", "d">>
S_connect == <<"m", "s", ".", "c", "h", "a", "n", "n", "e", "l", ".", "c", "o", "n", "n", "e", "c", "t">>
S_error == <<"m", "s", ".", "e", "r", "r", "o", "r">>

\* {"unauthorized", "forbidden", "denied"}
AuthWords == {S_unauthorized, S_forbidden, S_denied}

\* sub in s
Contains(s, sub) == \E i \in 0..(Len(s) - Len(sub)) : SubSeq(s, i + 1, i + Len(sub)) = sub

\* s[:n]
Take(s, n) == SubSeq(s, 1, IF Len(s) < n THEN Len(s) ELSE n)

\* _drain_until_idle(websocket, limit=4)
DrainLimit == 4

\* _maybe_parse: a frame is the dict its JSON text holds, or text that holds none
maybe_parse(payload) == IF payload.t = "dict" THEN payload ELSE VNone

\* _drain_until_idle when the peer sends incoming and then stays silent:
\* limit frames are read at most, the ones without a dict are skipped
Parsed(frames) == SelectSeq(frames, LAMBDA raw : maybe_parse(raw).t # "none")

drain_until_idle(incoming, limit) ==
    [i \in 1..Len(Parsed(Take(incoming, limit))) |-> maybe_parse(Parsed(Take(incoming, limit))[i]).v]

\* the message returned if a word is in code or in message.lower(), else None
AuthMessage(message, code) ==
    IF /\ message.t = "str"
       /\ message.v # <<>>
       /\ \E word \in AuthWords : Contains(code, word) \/ Contains(Lower(message.v), word)
    THEN message
    ELSE VNone

\* message = data.get("message") or data.get("status_message"); code = str(data.get("code") or "").lower()
DataError(data) ==
    AuthMessage(OrElse(Get(data, "message"), Get(data, "status_message")),
                Lower(Str(OrElse(Get(data, "code"), VStr(<<>>)))))

EntryError(entry) ==
    IF Get(entry, "data").t = "dict" THEN DataError(Get(entry, "data").v) ELSE VNone

\* _first_error
RECURSIVE first_error(_)
first_error(messages) ==
    IF messages = <<>> THEN VNone
    ELSE IF EntryError(Head(messages)).t # "none" THEN EntryError(Head(messages))
    ELSE first_error(Tail(messages))

\* isinstance(token, (str, int)) and str(token): bool is an int
TokenText(token) ==
    IF token.t \in {"str", "int", "bool"} /\ Str(token) # <<>> THEN VStr(Str(token)) ELSE VNone

\* cid = attrs.get("client_id") or attrs.get("clientId")
AttrsToken(attrs) == TokenText(OrElse(Get(attrs, "client_id"), Get(attrs, "clientId")))

ClientToken(client) ==
    IF client.t = "dict" /\ Get(client.v, "attributes").t = "dict"
    THEN AttrsToken(Get(client.v, "attributes").v)
    ELSE VNone

\* for client in clients
RECURSIVE ClientsToken(_)
ClientsToken(clients) ==
    IF clients = <<>> THEN VNone
    ELSE IF ClientToken(Head(clients)).t # "none" THEN ClientToken(Head(clients))
    ELSE ClientsToken(Tail(clients))

DataToken(data) ==
    IF TokenText(Get(data, "token")).t # "none" THEN TokenText(Get(data, "token"))
    ELSE IF Get(data, "clients").t = "list" THEN ClientsToken(Get(data, "clients").v)
    ELSE VNone

EntryToken(entry) ==
    IF TokenText(Get(entry, "token")).t # "none" THEN TokenText(Get(entry, "token"))
    ELSE IF Get(entry, "data").t = "dict" THEN DataToken(Get(entry, "data").v)
    ELSE VNone

\* _extract_token
RECURSIVE extract_token(_)
extract_token(messages) ==
    IF messages = <<>> THEN VNone
    ELSE IF EntryToken(Head(messages)).t # "none" THEN EntryToken(Head(messages))
    ELSE extract_token(Tail(messages))

\* the frames of the television
F_clients ==
    [clients |-> VList(<<VStr(<<>>), VDict([attributes |-> VDict([clientId |-> VStr(<<"2", "2">>)])])>>)]
F_connect == [event |-> VStr(S_connect), data |-> VDict(Put(F_clients, "token", VInt(11)))]
F_unauthorized == [event |-> VStr(S_error), data |-> VDict([message |-> VStr(S_unauthorized)])]
F_denied == [event |-> VStr(S_error), data |-> VDict([message |-> VStr(S_AccessDenied)])]
F_renewed == [token |-> VStr(<<"1", "1">>), data |-> VDict([status_message |-> VStr(S_Unauthorized)])]
NotJson == VStr(<<"o", "k">>)

\* what the television sends while one drain listens, one entry per case
DrainInputs ==
    << <<>>,
       <<VDict(F_connect)>>,
       <<NotJson, VDict(F_unauthorized)>>,
       <<VDict(F_denied), VDict(F_unauthorized)>>,
       <<VDict(F_renewed)>> >>

DrainCases == 1..Len(DrainInputs)

\* the messages, the token and the error of each drain
Drained ==
    [n \in DrainCases |->
        [messages |-> drain_until_idle(DrainInputs[n], DrainLimit),
         token    |-> extract_token(drain_until_idle(DrainInputs[n], DrainLimit)),
         error    |-> first_error(drain_until_idle(DrainInputs[n], DrainLimit))]]

\* str(exc) of the exceptions of the model
S_timed_out == <<"t", "i", "m", "e", "d", " ", "o", "u", "t">>
S_closed == <<"c", "o", "n", "n", "e", "c", "t", "i", "o", "n", " ", "c", "l", "o", "s", "e", "d">>

(***************************************************************************)
(* DeviceManager.execute_inline_command with a Samsung payload, up to the  *)
(* call of SamsungRemoteController.send_key                                *)
(***************************************************************************)
\* commands received in one behaviour
MaxCommands == 2

\* the clients whose requests the event loop serves side by side
Clients == {1, 2}

S_inline == <<"_", "_", "i", "n", "l", "i", "n", "e", "_", "_">>
S_Omnicontrol == <<"O", "m", "n", "i", "c", "o", "n", "t", "r", "o", "l">>
S_key_up == <<"k", "e", "y", "_", "u", "p">>
S_77 == <<"7", "7">>
Ip1 == <<"1", "0", ".", "1">>

P_key == [transport |-> VStr(S_samsung), key |-> VStr(S_key_up)]
P_token ==
    [transport |-> VStr(S_samsung), key |-> VStr(S_key_up), token |-> VInt(99),
     host |-> VStr(<<" ">> \o Ip1), repeat |-> VStr(<<"2">>)]

InlinePayloads == {P_key, P_token}

\* inline_spec["id"] = inline_spec.get("id") or "__inline__"; normalized = _normalize_command_spec(inline_spec)
InlineSpec ==
    [payload \in InlinePayloads |->
        normalize_command_spec(Put(payload, "id", OrElse(Get(payload, "id"), VStr(S_inline))))]

\* d.get(k) for a key that holds a str
GetStr(d, k) == IF k \in DOMAIN d THEN VStr(d[k]) ELSE VNone

\* metadata = device.metadata or {}: an empty dict gives way to a new one
LocalMetadata(device, heap) ==
    IF DOMAIN heap[device.metadata] = {} THEN Len(heap) + 1 ELSE device.metadata

\* raw_ip = command.get("ip") or command.get("host")
RawIp(command) == OrElse(GetStr(command, "ip"), GetStr(command, "host"))

\* ip = str(raw_ip or metadata.get("samsung_ip") or ... or device.address or "").strip()
CommandIp(command, md, device) ==
    Strip(Str(OrElse(RawIp(command),
              OrElse(GetStr(md, "samsung_ip"),
              OrElse(GetStr(md, "smartview_ip"),
              OrElse(GetStr(md, "ip"),
              OrElse(VStr(device.address), VStr(<<>>))))))))

\* if raw_ip and metadata.get("samsung_ip") != ip: metadata["samsung_ip"] = ip
PutIp(md, command, ip) ==
    IF Truthy(RawIp(command)) /\ GetStr(md, "samsung_ip") # VStr(ip)
    THEN Put(md, "samsung_ip", ip)
    ELSE md

\* s or default, for a str
NonEmptyOr(s, default) == IF s = <<>> THEN default ELSE s

\* client_id = str(command.get("client_id") or existing_client_id or "").strip(), or a new uuid
ClientId(command, md, fresh) ==
    NonEmptyOr(Strip(Str(OrElse(GetStr(command, "client_id"),
                         OrElse(GetStr(md, "samsung_client_id"),
                         OrElse(GetStr(md, "smartview_client_id"), VStr(<<>>)))))),
               fresh)

\* both branches that write metadata["samsung_client_id"]
PutClientId(md, client_id) ==
    IF GetStr(md, "samsung_client_id") # VStr(client_id)
    THEN Put(md, "samsung_client_id", client_id)
    ELSE md

\* friendly_name, "Omnicontrol" if blank
FriendlyName(command, md, device) ==
    NonEmptyOr(Strip(Str(OrElse(GetStr(command, "name"),
                         OrElse(GetStr(md, "samsung_remote_name"),
                         OrElse(VStr(device.name), VStr(S_Omnicontrol)))))),
               S_Omnicontrol)

PutName(md, command, name) ==
    IF Truthy(GetStr(command, "name")) /\ GetStr(md, "samsung_remote_name") # VStr(name)
    THEN Put(md, "samsung_remote_name", name)
    ELSE md

\* a build that prefers the stored token to the token of the command
TokenValueStoredFirst(command, md) ==
    OrElse(GetStr(md, "samsung_token"),
           OrElse(GetStr(command, "token"), GetStr(md, "smartview_token")))

\* token_value = command.get("token") or metadata.get("samsung_token") or metadata.get("smartview_token")
TokenValue(command, md) ==
    OrElse(GetStr(command, "token"),
           OrElse(GetStr(md, "samsung_token"), GetStr(md, "smartview_token")))

\* token = str(token_value).strip() if isinstance(token_value, (str, int)) else None; "" is None
TokenOf(token_value) ==
    IF token_value.t \in {"str", "int", "bool"} /\ Strip(Str(token_value)) # <<>>
    THEN VStr(Strip(Str(token_value)))
    ELSE VNone

\* key = str(command.get("key") or "").strip().upper()
CommandKey(command) == Upper(Strip(Str(OrElse(GetStr(command, "key"), VStr(<<>>)))))

\* repeat = int(repeat_raw) if repeat_raw is not None else 1; if repeat <= 0: repeat = 1
CommandRepeat(command) ==
    IF "repeat" \in DOMAIN command /\ command["repeat"] > 0 THEN command["repeat"] ELSE 1

\* generate_client_id(): a uuid no earlier call has drawn
FreshClientId(n) == <<"u", "u", "i", "d", "-">> \o NatToStr(n)

\* lines 1068-1143 for one command: the arguments of send_key and the dict that metadata
\* names; command_id is the stored command of send_command, "" for an inline command
SamsungArguments(command, md, device, ip, client_id, name) ==
    [ip       |-> ip,
     token    |-> TokenOf(TokenValue(command, md)),
     key      |-> CommandKey(command),
     repeat   |-> CommandRepeat(command),
     own      |-> GetStr(command, "token"),
     metadata |-> PutName(PutClientId(PutIp(md, command, ip), client_id), command, name),
     command_id |-> <<>>]

PerformArguments(command, md, device, fresh) ==
    SamsungArguments(command, md, device, CommandIp(command, md, device),
                     ClientId(command, md, fresh), FriendlyName(command, md, device))

(***************************************************************************)
(* SamsungRemoteController.send_key and the rest of                        *)
(* _perform_samsung_command; one action per stretch of code between two    *)
(* awaits.  A drain is one step: nothing else reads the websocket.         *)
(***************************************************************************)
NoCall == [pc |-> "idle"]

\* a build without the lock
LockHeldNever(ip) == FALSE

\* lock.locked() for the lock of ip
LockHeld(ip) == ip \in DOMAIN locks /\ locks[ip]

\* an earlier caller is queued on the lock of ip: asyncio.Lock serves its waiters first
Queued(c, ip) == \E o \in Clients \ {c} : call[o].pc = "lock" /\ call[o].ip = ip

\* websocket is None or websocket.closed
NeedsSocket(ip) == ip \notin DOMAIN sockets \/ websockets[sockets[ip]].closed

\* a build that sends ms.channel.connect in every call
NeedsConnectAlways(ip) == TRUE

\* not self._socket_connected.get(ip, False)
NeedsConnect(ip) == ~(ip \in DOMAIN socket_connected /\ socket_connected[ip])

\* the first await of send_key inside the lock
EnterPc(ip) == IF NeedsSocket(ip) THEN "open" ELSE IF NeedsConnect(ip) THEN "connect" ELSE "key"

\* websocket = self._sockets.get(ip), 0 for None
CachedSocket(ip) == IF ip \in DOMAIN sockets THEN sockets[ip] ELSE 0

\* what the exchanges of the device that ended so far said about its token
Seen(device_id) == IF device_id \in DOMAIN yielded THEN yielded[device_id] ELSE [state |-> "none"]

\* the locals of _perform_samsung_command and send_key at the call of send_key, and
\* the command id of send_command, "" when execute_inline_command is the caller
NewCall(device_id, ref, args, updated) ==
    [pc |-> "lock", device |-> device_id, metadata |-> ref, updated |-> updated,
     ip |-> args.ip, token |-> args.token, key |-> args.key, repeat |-> args.repeat,
     websocket |-> 0, extracted_token |-> VNone, error_message |-> VNone, index |-> 0, exc |-> <<>>,
     own |-> args.own, opened |-> FALSE, connects |-> 0, keys |-> 0, handshake |-> 0,
     command_id |-> args.command_id]

\* inside the lock, up to the first await
Entered(k, ip) ==
    [k EXCEPT !.pc = EnterPc(ip), !.websocket = CachedSocket(ip), !.opened = NeedsSocket(ip)]

\* async with lock: taken at once when free and nobody is queued
Enter(c, k) ==
    IF LockHeld(k.ip) \/ Queued(c, k.ip)
    THEN /\ call' = [call EXCEPT ![c] = k]
         /\ UNCHANGED locks
    ELSE /\ call' = [call EXCEPT ![c] = Entered(k, k.ip)]
         /\ locks' = Put(locks, k.ip, TRUE)

\* _perform_samsung_command up to send_key; ValueError if no ip is known
Begin(c, device_id, ref, md, args) ==
    /\ IF args.ip = <<>>
       THEN UNCHANGED <<call, locks, dicts>>
       ELSE /\ dicts' = IF ref > Len(dicts) THEN Append(dicts, args.metadata)
                        ELSE [dicts EXCEPT ![ref] = args.metadata]
            /\ Enter(c, NewCall(device_id, ref, args, args.metadata # md))
    /\ UNCHANGED <<devices, persisted, sockets, socket_connected, websockets, last, yielded>>

\* execute_inline_command: ValueError unless the device speaks samsung or smartview
ExecuteInlineCommand(c, device_id, payload) ==
    /\ issued < MaxCommands
    /\ call[c].pc = "idle"
    /\ \A o \in Clients : o < c => call[o].pc # "idle"
    /\ InlineSpec[payload].ok
    /\ issued' = issued + 1
    /\ IF devices[device_id].protocols \cap {"samsung", "smartview"} = {}
       THEN UNCHANGED <<call, registryVars, controllerVars, last, yielded>>
       ELSE Begin(c, device_id, LocalMetadata(devices[device_id], dicts),
                  dicts[devices[device_id].metadata],
                  PerformArguments(InlineSpec[payload].value, dicts[devices[device_id].metadata],
                                   devices[device_id], FreshClientId(issued + 1)))
    /\ UNCHANGED <<functionVars, hubVars, jobVars>>

\* "unauthorized" in error.lower(), for an error that is not empty
IsUnauthorized(error) == Truthy(error) /\ Contains(Lower(error.v), S_unauthorized)

\* lines 1158-1166: the three branches on the result
PostToken(md, token, error, passed) ==
    IF Truthy(token) THEN Put(md, "samsung_token", token.v)
    ELSE IF IsUnauthorized(error) THEN Remove(md, "samsung_token")
    ELSE IF Truthy(passed) /\ GetStr(md, "samsung_token") # passed THEN Put(md, "samsung_token", passed.v)
    ELSE md

\* whether one of the branches sets updated
PostUpdated(md, token, error, passed) ==
    IF Truthy(token) THEN TRUE
    ELSE IF IsUnauthorized(error) THEN "samsung_token" \in DOMAIN md
    ELSE Truthy(passed) /\ GetStr(md, "samsung_token") # passed

\* lines 1158-1171
PostMetadata(md, k, token, error) ==
    Put(PostToken(md, token, error, k.token), "samsung_last_command",
        [key |-> k.key, timestamp |-> Timestamp, error |-> error])

\* history: the call that ended
Outcome(k, token, error, raised) ==
    [websocket |-> k.websocket, handshake |-> k.handshake, raised |-> raised, error |-> error,
     token |-> token]

\* history: a token yielded is remembered until an exchange reports 'unauthorized'
\* and yields none
Yield(seen, token, error) ==
    IF Truthy(token) THEN [state |-> "stored", token |-> token.v]
    ELSE IF IsUnauthorized(error) THEN [state |-> "cleared"]
    ELSE seen

\* lines 652-663: what the command id says about power, "" if nothing
PowerAfter(command_id, md, status) ==
    IF Lower(command_id) = S_power_off THEN "off"
    ELSE IF Lower(command_id) = S_power_on THEN "on"
    ELSE IF Lower(command_id) = <<"p", "o", "w", "e", "r", "_", "t", "o", "g", "g", "l", "e">>
    THEN (IF MGet(md, "is_on", status = "online") THEN "off" ELSE "on")
    ELSE ""

\* lines 653-668 on the status
CommandStatus(command_id, md, status) ==
    IF PowerAfter(command_id, md, status) = "on" THEN "online"
    ELSE IF PowerAfter(command_id, md, status) = "off" THEN "offline"
    ELSE IF status \notin {"online", "offline"} THEN "online"
    ELSE status

\* lines 640-651 of send_command after a samsung command: last_entry with the
\* response of _perform_samsung_command as JSON, its token and its error; the
\* messages and the length of the text are not kept
SamsungLastEntry(command_id, token, error) ==
    [id |-> command_id, at |-> Timestamp, transport |-> S_samsung,
     response_json |-> [token |-> token, error |-> error]]

\* lines 640-663 of send_command on the metadata that _perform_samsung_command
\* left; execute_inline_command (command_id "") has none of them
AfterSamsungCommand(md, k, token, error, status) ==
    IF k.command_id = <<>> THEN md
    ELSE IF PowerAfter(k.command_id, md, status) = ""
    THEN Put(md, "last_command", SamsungLastEntry(k.command_id, token, error))
    ELSE Put(Put(md, "last_command", SamsungLastEntry(k.command_id, token, error)),
             "is_on", PowerAfter(k.command_id, md, status) = "on")

\* lines 653-668 of send_command on the device
AfterSamsungDevice(device, md, k) ==
    IF k.command_id = <<>> THEN [device EXCEPT !.metadata = k.metadata]
    ELSE [device EXCEPT !.metadata = k.metadata, !.last_seen = Timestamp,
                        !.status = CommandStatus(k.command_id, md, @)]

\* send_key returns, the lock is released, and _perform_samsung_command runs to its
\* end; send_command then goes on to its own end, which has no await but the persist
Finish(c, k, token, error, raised, socks, connected, wsocks) ==
    /\ sockets' = socks
    /\ socket_connected' = connected
    /\ websockets' = wsocks
    /\ locks' = [locks EXCEPT ![k.ip] = FALSE]
    /\ last' = Put(last, k.ip, Outcome(k, token, error, raised))
    /\ yielded' = Put(yielded, k.device, Yield(Seen(k.device), token, error))
    /\ dicts' = [dicts EXCEPT ![k.metadata] =
                    AfterSamsungCommand(PostMetadata(@, k, token, error), k, token, error,
                                        devices[k.device].status)]
    /\ devices' = [devices EXCEPT ![k.device] =
                      AfterSamsungDevice(@, PostMetadata(dicts[k.metadata], k, token, error), k)]
    /\ persisted' = IF k.command_id # <<>> \/ k.updated
                       \/ PostUpdated(dicts[k.metadata], token, error, k.token)
                    THEN PersistDevices(devices', dicts')
                    ELSE persisted
    /\ call' = [call EXCEPT ![c] = NoCall]

\* a build whose except branch leaves the cache as it is
PoppedNever(d, ip) == d

\* d.pop(ip, None) in the except branch
Popped(d, ip) == Remove(d, ip)

\* except Exception as exc: an open cached socket is closed first, then both entries are popped
Raise(c, k, text) ==
    IF k.ip \in DOMAIN sockets /\ ~websockets[sockets[k.ip]].closed
    THEN /\ call' = [call EXCEPT ![c] = [k EXCEPT !.pc = "close", !.exc = text]]
         /\ UNCHANGED <<controllerVars, registryVars, last, yielded>>
    ELSE Finish(c, k, k.extracted_token, VStr(text), TRUE,
                Popped(sockets, k.ip), Popped(socket_connected, k.ip), websockets)

\* the lock is released to a queued caller
LockAcquired(c) ==
    /\ call[c].pc = "lock"
    /\ ~LockHeld(call[c].ip)
    /\ locks' = Put(locks, call[c].ip, TRUE)
    /\ call' = [call EXCEPT ![c] = Entered(@, @.ip)]
    /\ UNCHANGED <<issued, registryVars, sockets, socket_connected, websockets, last, yielded,
                   functionVars, hubVars, jobVars>>

\* await websockets.connect(...) returns a socket or raises
SocketOpened(c) ==
    /\ call[c].pc = "open"
    /\ \/ /\ websockets' = Append(websockets, [closed |-> FALSE, connects |-> 0, refused |-> 0])
          /\ sockets' = Put(sockets, call[c].ip, Len(websockets) + 1)
          /\ socket_connected' = Put(socket_connected, call[c].ip, FALSE)
          /\ call' = [call EXCEPT ![c].pc = "connect", ![c].websocket = Len(websockets) + 1]
          /\ UNCHANGED <<locks, registryVars, last, yielded>>
       \/ Raise(c, call[c], S_timed_out)
    /\ UNCHANGED <<issued, functionVars, hubVars, jobVars>>

\* await self._send_connect(...): send raises on a closed socket
ConnectSent(c) ==
    /\ call[c].pc = "connect"
    /\ IF websockets[call[c].websocket].closed
       THEN Raise(c, call[c], S_closed)
       ELSE /\ call' = [call EXCEPT ![c].pc = "handshake", ![c].connects = @ + 1]
            /\ websockets' = [websockets EXCEPT ![call[c].websocket].connects = @ + 1]
            /\ UNCHANGED <<locks, sockets, socket_connected, registryVars, last, yielded>>
    /\ UNCHANGED <<issued, functionVars, hubVars, jobVars>>

\* lines 110-116 for the messages of the handshake drain
Handshaken(c, k, n) ==
    IF IsUnauthorized(Drained[n].error)
    THEN Finish(c, [k EXCEPT !.handshake = n], Drained[n].token, Drained[n].error, FALSE,
                sockets, socket_connected,
                [websockets EXCEPT ![k.websocket].refused = @ + 1])
    ELSE /\ socket_connected' = Put(socket_connected, k.ip, TRUE)
         /\ call' = [call EXCEPT ![c] = [k EXCEPT !.pc = "key", !.handshake = n,
                                                  !.extracted_token = Drained[n].token,
                                                  !.error_message = Drained[n].error]]
         /\ UNCHANGED <<locks, sockets, websockets, registryVars, last, yielded>>

\* handshake_msgs = await self._drain_until_idle(websocket, limit=4); recv may raise
\* something else than the three exceptions that end the drain
HandshakeDrained(c) ==
    /\ call[c].pc = "handshake"
    /\ \/ \E n \in DrainCases : Handshaken(c, call[c], n)
       \/ Raise(c, call[c], S_timed_out)
    /\ UNCHANGED <<issued, functionVars, hubVars, jobVars>>

\* await websocket.send(payload), one of max(repeat, 1): send raises on a closed socket
KeySent(c) ==
    /\ call[c].pc = "key"
    /\ IF websockets[call[c].websocket].closed
       THEN Raise(c, call[c], S_closed)
       ELSE /\ call' = [call EXCEPT ![c].pc = IF call[c].index + 1 < call[c].repeat THEN "key" ELSE "ack",
                                    ![c].index = @ + 1, ![c].keys = @ + 1]
            /\ UNCHANGED <<controllerVars, registryVars, last, yielded>>
    /\ UNCHANGED <<issued, functionVars, hubVars, jobVars>>

\* ack_msgs = await self._drain_until_idle(websocket, limit=4), lines 133-135 and the return
AckDrained(c) ==
    /\ call[c].pc = "ack"
    /\ \/ \E n \in DrainCases :
              Finish(c, call[c], OrElse(call[c].extracted_token, Drained[n].token),
                     OrElse(call[c].error_message, Drained[n].error), FALSE,
                     sockets, socket_connected, websockets)
       \/ Raise(c, call[c], S_timed_out)
    /\ UNCHANGED <<issued, functionVars, hubVars, jobVars>>

\* the except branch with self._sockets.pop(ip, None) only: the flag of the ip stays
SocketClosedFlagKept(c) ==
    /\ call[c].pc = "close"
    /\ Finish(c, call[c], call[c].extracted_token, VStr(call[c].exc), TRUE,
              Popped(sockets, call[c].ip), socket_connected,
              [websockets EXCEPT ![sockets[call[c].ip]].closed = TRUE])
    /\ UNCHANGED <<issued, functionVars, hubVars, jobVars>>

\* await ws.close() in the except branch, then the two pops and the return
SocketClosed(c) ==
    /\ call[c].pc = "close"
    /\ Finish(c, call[c], call[c].extracted_token, VStr(call[c].exc), TRUE,
              Popped(sockets, call[c].ip), Popped(socket_connected, call[c].ip),
              [websockets EXCEPT ![sockets[call[c].ip]].closed = TRUE])
    /\ UNCHANGED <<issued, functionVars, hubVars, jobVars>>

\* the television or the network closes a cached websocket
PeerCloses(ip) ==
    /\ ~websockets[sockets[ip]].closed
    /\ websockets' = [websockets EXCEPT ![sockets[ip]].closed = TRUE]
    /\ UNCHANGED <<issued, call, locks, sockets, socket_connected, registryVars, last, yielded,
                   functionVars, hubVars, jobVars>>

\* the registry at start-up: one television, its metadata as the file holds it
TvMetadata ==
    { Put(EmptyDict, "samsung_ip", Ip1),
      Put(Put(EmptyDict, "samsung_ip", Ip1), "smartview_token", S_77),
      Put(Put(EmptyDict, "samsung_ip", Ip1), "samsung_token", S_77) }

Television(ref) ==
    [id |-> S_tv, name |-> <<"T", "V">>, type |-> S_Display, room |-> S_Unassigned,
     protocols |-> {"samsung"}, integrations |-> {"scene"}, status |-> "offline",
     last_seen |-> "Never", firmware |-> "Unknown", address |-> Ip1,
     metadata |-> ref, capabilities |-> EmptyDict]

\* the protocol tags of the television: 'samsung' once pair_samsung_device has
\* obtained a token, and the tags of a device that is known by its ip only
TvProtocols == {{"samsung"}, {"bluetooth"}}

SamsungInit ==
    /\ addrIn = AddrDashed
    /\ addrDM = NoResult
    /\ addrBT = NoResult
    /\ pairing_jobs = EmptyDict
    /\ task = EmptyDict
    /\ \E md \in TvMetadata : dicts = <<md>>
    /\ \E protocols \in TvProtocols :
          devices = Put(EmptyDict, S_tv, [Television(1) EXCEPT !.protocols = protocols])
    /\ persisted = PersistDevices(devices, dicts)
    /\ PerformIdle
    /\ BluezIdle
    /\ NormIdle
    /\ ResolveIdle
    /\ RfcommIdle
    /\ HubIdle
    /\ issued = 0
    /\ call = [c \in Clients |-> NoCall]
    /\ locks = EmptyDict
    /\ sockets = EmptyDict
    /\ socket_connected = EmptyDict
    /\ websockets = <<>>
    /\ last = EmptyDict
    /\ yielded = EmptyDict

SamsungNext ==
    \/ \E c \in Clients, device_id \in DOMAIN devices, payload \in InlinePayloads :
           ExecuteInlineCommand(c, device_id, payload)
    \/ \E c \in Clients : LockAcquired(c)
    \/ \E c \in Clients : SocketOpened(c)
    \/ \E c \in Clients : ConnectSent(c)
    \/ \E c \in Clients : HandshakeDrained(c)
    \/ \E c \in Clients : KeySent(c)
    \/ \E c \in Clients : AckDrained(c)
    \/ \E c \in Clients : SocketClosed(c)
    \/ \E ip \in DOMAIN sockets : PeerCloses(ip)

SpecSamsung == SamsungInit /\ [][SamsungNext]_vars

(***************************************************************************)
(* Inputs of _normalize_command_spec: for each key of a raw specification  *)
(* a list of values, the first of which stands for "key absent".  A raw    *)
(* specification is drawn by choosing one value per key; the keys of       *)
(* another transport than its own are absent.                              *)
(***************************************************************************)
Absent == [t |-> "absent"]

IdValues == <<Absent, VStr(<<"p", "w">>), VStr(<<" ">>)>>
TransportValues ==
    <<Absent, VStr(<<" ", "B", "L", "E">>), VStr(<<"z", "i", "g", "b", "e", "e">>),
      VStr(<<"R", "f", "c", "o", "m", "m">>), VStr(<<"s", "a", "m", "s", "u", "n", "g", " ">>)>>
PayloadHexValues ==
    <<Absent, VStr(<<"0", "x", "1">>), VStr(<<"0", "1", " ", "0", "2">>), VStr(<<"0", "x", "1", "2">>),
      VStr(<<"a", "b", "c">>), VStr(<<"1", "g">>), VStr(<<"a", "b", "-", "c", "d", " ">>), VInt(123)>>
CharacteristicValues == <<Absent, VStr(<<" ">>), VStr(<<"F", "F", "0", "1">>), VInt(0)>>
ChannelValues ==
    <<Absent, VInt(0), VInt(5), VStr(<<"3", "1">>), VStr(<<" ", "7", " ">>), VStr(<<"x">>)>>
ServiceUuidValues == <<Absent, VStr(<<"1", "1", "0", "B">>)>>
ServiceNameValues == <<Absent, VStr(<<"s", "p", "p">>), VStr(<<" ">>)>>
KeyValues == <<Absent, VStr(<<" ">>), VStr(<<"k", "e", "y", "_", "u", "p">>)>>
KeyCodeValues == <<Absent, VStr(<<"m", "e", "n", "u">>)>>
RepeatValues ==
    <<Absent, VInt(0), VInt(-1), VInt(2), VStr(<<"0">>), VStr(<<" ", "3", " ">>), VStr(<<"x">>),
      VBool(FALSE), VStr(<<>>)>>

\* the values of each key, by key
SpecValues ==
    [id |-> IdValues, transport |-> TransportValues, payload_hex |-> PayloadHexValues,
     characteristic |-> CharacteristicValues, rfcomm_channel |-> ChannelValues,
     service_uuid |-> ServiceUuidValues, service_name |-> ServiceNameValues,
     key |-> KeyValues, key_code |-> KeyCodeValues, repeat |-> RepeatValues]

\* a drawn specification: the index of the value of each key
Drawn(id, transport, payload_hex, characteristic, rfcomm_channel, service_uuid, service_name,
      key, key_code, repeat) ==
    [id |-> id, transport |-> transport, payload_hex |-> payload_hex,
     characteristic |-> characteristic, rfcomm_channel |-> rfcomm_channel,
     service_uuid |-> service_uuid, service_name |-> service_name,
     key |-> key, key_code |-> key_code, repeat |-> repeat]

Indices(values) == 1..Len(values)

\* no transport, ble or an unknown transport: a characteristic
BleInputs ==
    { Drawn(i, t, h, c, 1, 1, 1, 1, 1, 1) :
        i \in Indices(IdValues), t \in {1, 2, 3}, h \in Indices(PayloadHexValues),
        c \in Indices(CharacteristicValues) }

RfcommInputs ==
    { Drawn(i, 4, h, 1, c, u, n, 1, 1, 1) :
        i \in Indices(IdValues), h \in Indices(PayloadHexValues), c \in Indices(ChannelValues),
        u \in Indices(ServiceUuidValues), n \in Indices(ServiceNameValues) }

SamsungInputs ==
    { Drawn(i, 5, h, 1, 1, 1, 1, k, a, r) :
        i \in Indices(IdValues), h \in Indices(PayloadHexValues), k \in Indices(KeyValues),
        a \in Indices(KeyCodeValues), r \in Indices(RepeatValues) }

SpecInputs == BleInputs \cup RfcommInputs \cup SamsungInputs

\* the dict of a drawn specification
RawSpec(in) ==
    [k \in {x \in DOMAIN SpecValues : in[x] # 1} |-> SpecValues[k][in[k]]]

(***************************************************************************)
(* Command normalisation as a system: one raw specification, normalised    *)
(***************************************************************************)
NormInit ==
    /\ specIn \in SpecInputs
    /\ normalizedSpec = NoResult
    /\ addrIn = AddrDashed
    /\ addrDM = NoResult
    /\ addrBT = NoResult
    /\ devices = EmptyDict
    /\ dicts = <<>>
    /\ persisted = NoFile
    /\ pairing_jobs = EmptyDict
    /\ task = EmptyDict
    /\ PerformIdle
    /\ BluezIdle
    /\ ResolveIdle
    /\ RfcommIdle
    /\ SamsungIdle
    /\ HubIdle

NormalizeCommandSpec ==
    /\ normalizedSpec = NoResult
    /\ normalizedSpec' = normalize_command_spec(RawSpec(specIn))
    /\ UNCHANGED <<specIn, addrVars, resolveVars, rfcommCall, performVars, bluezVars,
                 registryVars, hubVars, jobVars, samsungVars>>

NormNext == NormalizeCommandSpec

SpecNorm == NormInit /\ [][NormNext]_vars

(***************************************************************************)
(* _normalize_command_spec applied to its own output: one raw              *)
(* specification with a label, normalised, and the result normalised again *)
(***************************************************************************)
LabelValues == <<Absent, VStr(<<" ">>), VStr(<<" ", "O", "n">>)>>

\* a drawn specification with the index of its label
Labelled(in, label) == [k \in DOMAIN in \cup {"label"} |-> IF k = "label" THEN label ELSE in[k]]

LabelledInputs == {Labelled(in, label) : in \in SpecInputs, label \in Indices(LabelValues)}

\* the dict of a drawn specification with its label
LabelledSpec(in) ==
    IF in["label"] = 1 THEN RawSpec(in) ELSE Put(RawSpec(in), "label", LabelValues[in["label"]])

\* the dict _normalize_command_spec returned, as the argument of a second call:
\* each value with the type the code gave it
AsRawSpec(spec) ==
    [k \in DOMAIN spec |->
        CASE k = "with_response" -> VBool(spec[k])
          [] k \in {"rfcomm_channel", "repeat"} -> VInt(spec[k])
          [] k = "option" -> spec[k]
          [] OTHER -> VStr(spec[k])]

RenormInit ==
    /\ specIn \in LabelledInputs
    /\ normalizedSpec = NoResult
    /\ addrIn = AddrDashed
    /\ addrDM = NoResult
    /\ addrBT = NoResult
    /\ devices = EmptyDict
    /\ dicts = <<>>
    /\ persisted = NoFile
    /\ pairing_jobs = EmptyDict
    /\ task = EmptyDict
    /\ PerformIdle
    /\ BluezIdle
    /\ ResolveIdle
    /\ RfcommIdle
    /\ SamsungIdle
    /\ HubIdle

\* spec = self._normalize_command_spec(raw)
NormalizeLabelled ==
    /\ normalizedSpec = NoResult
    /\ normalizedSpec' = normalize_command_spec(LabelledSpec(specIn))
    /\ UNCHANGED <<specIn, addrVars, resolveVars, rfcommCall, performVars, bluezVars,
                 registryVars, hubVars, jobVars, samsungVars>>

\* self._normalize_command_spec(spec) for a specification that was accepted
NormalizeOutput ==
    /\ "ok" \in DOMAIN normalizedSpec
    /\ normalizedSpec.ok
    /\ "again" \notin DOMAIN normalizedSpec
    /\ normalizedSpec' = [ok |-> TRUE, value |-> normalizedSpec.value,
                          again |-> normalize_command_spec(AsRawSpec(normalizedSpec.value))]
    /\ UNCHANGED <<specIn, addrVars, resolveVars, rfcommCall, performVars, bluezVars,
                 registryVars, hubVars, jobVars, samsungVars>>

RenormNext == NormalizeLabelled \/ NormalizeOutput

SpecRenorm == RenormInit /\ [][RenormNext]_vars

(***************************************************************************)
(* DeviceManager._resolve_rfcomm_channel                                   *)
(***************************************************************************)
\* str(service.get(k) or "").strip().lower()
ServiceText(service, k) == Lower(Strip(Str(OrElse(Get(service, k), VStr(<<>>)))))

\* service.get(k) or []
ServiceList(service, k) == OrElse(Get(service, k), VList(<<>>)).v

\* a build that looks at the service name only
MatchesNameOnly(service, ident) ==
    ServiceText(service, "name") # <<>> /\ Contains(ServiceText(service, "name"), ident)

\* lines 1301-1315: whether a record that has a channel is the one asked for
Matches(service, ident) ==
    \/ ServiceText(service, "name") # <<>> /\ Contains(ServiceText(service, "name"), ident)
    \/ ServiceText(service, "provider") # <<>> /\ Contains(ServiceText(service, "provider"), ident)
    \/ \E i \in 1..Len(ServiceList(service, "class_ids")) :
           ident \in {ServiceText(ServiceList(service, "class_ids")[i], "label"),
                      ServiceText(ServiceList(service, "class_ids")[i], "uuid")}
    \/ \E i \in 1..Len(ServiceList(service, "uuids")) :
           ident = Lower(Strip(Str(OrElse(ServiceList(service, "uuids")[i], VStr(<<>>)))))

\* lines 1293-1316: the loop over the service records; a record whose channel is
\* None or no int is passed over
RECURSIVE FirstMatch(_, _)
FirstMatch(services, ident) ==
    IF services = <<>> THEN VNone
    ELSE IF IntOf(Get(Head(services), "rfcomm_channel")).ok /\ Matches(Head(services), ident)
    THEN VInt(IntOf(Get(Head(services), "rfcomm_channel")).value)
    ELSE FirstMatch(Tail(services), ident)

\* lines 1287-1291: int(channels[ident]), None if that raises
MapChannel(channel) == IF IntOf(channel).ok THEN VInt(IntOf(channel).value) ELSE VNone

ResolveIdent(channels, services, ident) ==
    IF ident = <<>> THEN VNone
    ELSE IF ident \in DOMAIN channels THEN MapChannel(channels[ident])
    ELSE FirstMatch(services, ident)

resolve_rfcomm_channel(capabilities, identifier) ==
    ResolveIdent(MGet(MGet(capabilities, "classic", EmptyDict), "rfcomm_channels", EmptyDict),
                 MGet(MGet(capabilities, "classic", EmptyDict), "services", <<>>),
                 Lower(Strip(identifier)))

(***************************************************************************)
(* Inputs of _resolve_rfcomm_channel: what inspect_classic_capabilities    *)
(* stores for a device, and the identifier of a command.  The channel map  *)
(* and the service records are drawn apart: pair_bluetooth_device merges a *)
(* later inspection into the stored one, so an older map can stay beside   *)
(* newer records.                                                          *)
(***************************************************************************)
\* at most MaxServices service records per device
MaxServices == 2

U_110b == <<"0", "0", "0", "0", "1", "1", "0", "b">>
U_1101 == <<"0", "0", "0", "0", "1", "1", "0", "1">>
S_Acme == <<"A", "c", "m", "e">>
S_SerialPort == <<"S", "e", "r", "i", "a", "l", " ", "P", "o", "r", "t">>
S_AvrcpTarget == <<"A", "V", "R", "C", "P", " ", "T", "a", "r", "g", "e", "t">>
S_AvrcpController == <<"A", "V", "R", "C", "P", " ", "C", "o", "n", "t", "r", "o", "l", "l", "e", "r">>

\* rfcomm_channels as summarised by inspect_classic_capabilities: lower-case uuid -> channel
ChannelMaps ==
    <<EmptyDict,
      Put(EmptyDict, U_110b, VInt(3)),
      Put(Put(EmptyDict, U_110b, VInt(3)), U_1101, VInt(1))>>

ClassId(label, uuid) == [label |-> VStr(label), uuid |-> VStr(uuid)]

\* service records as parsed from sdptool: the second has no RFCOMM channel
ServiceRecords ==
    <<[name |-> VStr(S_AvrcpTarget),
       class_ids |-> VList(<<ClassId(<<"A", "V", " ", "R", "e", "m", "o", "t", "e">>, <<"0", "x", "1", "1", "0", "c">>)>>),
       rfcomm_channel |-> VInt(5)],
      [name |-> VStr(S_AvrcpController), provider |-> VStr(S_Acme)],
      [name |-> VStr(S_SerialPort), provider |-> VStr(S_Acme),
       class_ids |-> VList(<<ClassId(S_SerialPort, <<"0", "x", "1", "1", "0", "1">>)>>),
       uuids |-> VList(<<VStr(U_1101)>>),
       rfcomm_channel |-> VInt(1)],
      [class_ids |-> VList(<<ClassId(<<"A", "u", "d", "i", "o", " ", "S", "i", "n", "k">>, <<"0", "x", "1", "1", "0", "B">>)>>),
       uuids |-> VList(<<VStr(U_110b)>>),
       rfcomm_channel |-> VInt(3)]>>

Identifiers ==
    <<U_110b,
      <<"0", "0", "0", "0", "1", "1", "0", "B">>,
      <<" ", "0", "0", "0", "0", "1", "1", "0", "1">>,
      <<"a", "v", "r", "c", "p">>,
      <<"A", "V", "R", "C", "P", " ", "t", "a", "r", "g", "e", "t", " ">>,
      <<"a", "c", "m", "e">>,
      <<"0", "x", "1", "1", "0", "b">>,
      <<"0", "x", "1", "1", "0">>,
      <<"S", "e", "r", "i", "a", "l", " ", "p", "o", "r", "t">>,
      <<"z", "i", "g", "b", "e", "e">>,
      <<" ">>,
      <<>>>>

ServiceChoices == UNION { [1..n -> 1..Len(ServiceRecords)] : n \in 0..MaxServices }

ResolveInputs ==
    [channels : 1..Len(ChannelMaps), services : ServiceChoices, identifier : 1..Len(Identifiers)]

\* classic.get("services") of the input
ServicesOf(in) == [i \in 1..Len(in.services) |-> ServiceRecords[in.services[i]]]

\* device.capabilities of the input; the summary has no rfcomm_channels when the map is empty
CapabilitiesOf(in) ==
    Put(EmptyDict, "classic",
        IF ChannelMaps[in.channels] = EmptyDict
        THEN [profiles |-> {}, services |-> ServicesOf(in)]
        ELSE [profiles |-> {}, services |-> ServicesOf(in),
              rfcomm_channels |-> ChannelMaps[in.channels]])

ResolveInit ==
    /\ resolveIn \in ResolveInputs
    /\ resolved = NoResult
    /\ addrIn = AddrDashed
    /\ addrDM = NoResult
    /\ addrBT = NoResult
    /\ devices = EmptyDict
    /\ dicts = <<>>
    /\ persisted = NoFile
    /\ pairing_jobs = EmptyDict
    /\ task = EmptyDict
    /\ PerformIdle
    /\ BluezIdle
    /\ NormIdle
    /\ RfcommIdle
    /\ SamsungIdle
    /\ HubIdle

ResolveRfcommChannel ==
    /\ resolved = NoResult
    /\ resolved' = Ok(resolve_rfcomm_channel(CapabilitiesOf(resolveIn), Identifiers[resolveIn.identifier]))
    /\ UNCHANGED <<resolveIn, addrVars, normVars, rfcommCall, performVars, bluezVars,
                 registryVars, hubVars, jobVars, samsungVars>>

ResolveNext == ResolveRfcommChannel

SpecResolve == ResolveInit /\ [][ResolveNext]_vars

(***************************************************************************)
(* classic_rfcomm.send_command: one action per blocking call of the socket *)
(***************************************************************************)
\* the longest response asked for
MaxResponse == 3

\* the bytes a peer sends
Bytes == {0, 1}

\* if channel <= 0 or channel > 30
RfcommChannelLast == 30

\* expect = max(0, int(response_bytes))
Expect(response_bytes) == IF response_bytes < 0 THEN 0 ELSE response_bytes

\* the call returns value
Returned(k, value) == [k EXCEPT !.pc = "returned", !.result = value]

\* the call raises RFCOMMError(text)
Raised(k, text) == [k EXCEPT !.pc = "raised", !.error = text]

\* except OSError as exc: raise RFCOMMError(f"RFCOMM read failed: {exc}")
RecvFailed(k, exc) == Raised([k EXCEPT !.ended = exc], "RFCOMM read failed: " \o exc)

\* lines 47-50 after connect: the payload is sent if there is one
AfterConnect(k) ==
    IF k.payload # <<>> THEN [k EXCEPT !.pc = "sendall"]
    ELSE IF k.expect <= 0 THEN Returned(k, <<>>)
    ELSE [k EXCEPT !.pc = "recv"]

\* lines 51-54 after sendall
AfterSend(k) == IF k.expect <= 0 THEN Returned(k, <<>>) ELSE [k EXCEPT !.pc = "recv"]

\* lines 60-62 on a chunk that recv returned
Received(k, chunk) ==
    IF chunk = <<>> THEN Returned([k EXCEPT !.ended = "no data"], k.chunks)
    ELSE IF Len(k.chunks \o chunk) < k.expect THEN [k EXCEPT !.chunks = @ \o chunk]
    ELSE Returned([k EXCEPT !.chunks = @ \o chunk, !.ended = "complete"], k.chunks \o chunk)

\* lines 31-42: the channel check, _ensure_support and socket.socket()
RfcommOpen ==
    /\ rfcommCall.pc = "called"
    /\ \/ /\ rfcommCall.channel <= 0 \/ rfcommCall.channel > RfcommChannelLast
          /\ rfcommCall' = Raised(rfcommCall, "RFCOMM channel must be between 1 and 30")
       \/ /\ ~(rfcommCall.channel <= 0 \/ rfcommCall.channel > RfcommChannelLast)
          /\ \/ rfcommCall' = Raised(rfcommCall, "Python bluetooth socket support is unavailable")
             \/ rfcommCall' = Raised(rfcommCall, "Failed to allocate RFCOMM socket: " \o "OSError")
             \/ rfcommCall' = [rfcommCall EXCEPT !.pc = "connect",
                                                 !.expect = Expect(rfcommCall.response_bytes)]
    /\ UNCHANGED <<addrVars, normVars, resolveVars, performVars, bluezVars,
                 registryVars, hubVars, jobVars, samsungVars>>

\* sock.connect((address, channel)) returns or raises OSError
RfcommConnect ==
    /\ rfcommCall.pc = "connect"
    /\ \/ rfcommCall' = AfterConnect(rfcommCall)
       \/ rfcommCall' = Raised(rfcommCall, "RFCOMM exchange failed: " \o "timed out")
    /\ UNCHANGED <<addrVars, normVars, resolveVars, performVars, bluezVars,
                 registryVars, hubVars, jobVars, samsungVars>>

\* sock.sendall(payload) returns or raises OSError
RfcommSendall ==
    /\ rfcommCall.pc = "sendall"
    /\ \/ rfcommCall' = AfterSend(rfcommCall)
       \/ rfcommCall' = Raised(rfcommCall, "RFCOMM exchange failed: " \o "Connection reset by peer")
    /\ UNCHANGED <<addrVars, normVars, resolveVars, performVars, bluezVars,
                 registryVars, hubVars, jobVars, samsungVars>>

\* the chunks recv(n) can return: b"" when the peer has closed, else 1..n bytes
Chunks(n) == UNION { [1..m -> Bytes] : m \in 0..n }

\* sock.recv(expect - len(chunks)) returns a chunk, or raises socket.timeout, an
\* OSError, when response_timeout elapses, or another OSError
RfcommRecv ==
    /\ rfcommCall.pc = "recv"
    /\ \/ \E chunk \in Chunks(rfcommCall.expect - Len(rfcommCall.chunks)) :
              rfcommCall' = Received(rfcommCall, chunk)
       \/ \E exc \in {"timed out", "Connection reset by peer"} :
              rfcommCall' = RecvFailed(rfcommCall, exc)
    /\ UNCHANGED <<addrVars, normVars, resolveVars, performVars, bluezVars,
                 registryVars, hubVars, jobVars, samsungVars>>

RfcommArguments ==
    [channel : {0, 1, RfcommChannelLast, RfcommChannelLast + 1},
     payload : {<<>>, <<1, 0>>},
     response_bytes : (0 - 1)..MaxResponse]

NewRfcommCall(args) ==
    [pc |-> "called", channel |-> args.channel, payload |-> args.payload,
     response_bytes |-> args.response_bytes, expect |-> 0, chunks |-> <<>>,
     ended |-> "not", result |-> <<>>, error |-> ""]

RfcommInit ==
    /\ \E args \in RfcommArguments : rfcommCall = NewRfcommCall(args)
    /\ addrIn = AddrDashed
    /\ addrDM = NoResult
    /\ addrBT = NoResult
    /\ devices = EmptyDict
    /\ dicts = <<>>
    /\ persisted = NoFile
    /\ pairing_jobs = EmptyDict
    /\ task = EmptyDict
    /\ PerformIdle
    /\ BluezIdle
    /\ NormIdle
    /\ ResolveIdle
    /\ SamsungIdle
    /\ HubIdle

RfcommNext == RfcommOpen \/ RfcommConnect \/ RfcommSendall \/ RfcommRecv

SpecRfcomm == RfcommInit /\ [][RfcommNext]_vars

(***************************************************************************)
(* The hub: DeviceManager over its device store.  The process starts with  *)
(* _load_devices and the HomeKit refresh of startup(), then serves one     *)
(* operation at a time; a restart loses the registry and keeps the file.   *)
(* Every device owns the metadata dict at its index of dicts.              *)
(***************************************************************************)
S_Unknown == <<"U", "n", "k", "n", "o", "w", "n">>
S_lamp == <<"l", "a", "m", "p">>
S_seed_id == <<"d", "i", "s", "p", "l", "a", "y", "-", "l", "i", "v", "i", "n", "g", "-", "t", "v">>
S_seed_name == <<"L", "G", " ", "O", "L", "E", "D", " ", "G", "a", "l", "l", "e", "r", "y">>
S_LivingRoom == <<"L", "i", "v", "i", "n", "g", " ", "r", "o", "o", "m">>
S_Accessory == <<"A", "c", "c", "e", "s", "s", "o", "r", "y">>
S_address == <<"A", "A", ":", "B", "B", ":", "C", "C", ":", "D", "D", ":", "E", "E", ":", "F", "F">>

\* a build that reads every stored device as offline
FromDictOffline(entry, ref) ==
    [id |-> entry["id"],
     name |-> MGet(entry, "name", S_Unknown),
     type |-> MGet(entry, "type", S_Unknown),
     room |-> MGet(entry, "room", S_Unknown),
     protocols |-> MGet(entry, "protocols", {}),
     integrations |-> MGet(entry, "integrations", {}),
     status |-> "offline",
     last_seen |-> MGet(entry, "last_seen", "Unknown"),
     firmware |-> MGet(entry, "firmware", "Unknown"),
     address |-> MGet(entry, "address", NoAddress),
     metadata |-> ref,
     capabilities |-> MGet(entry, "capabilities", EmptyDict)]

\* Device.from_dict; ref is where the entry's metadata dict is kept
FromDict(entry, ref) ==
    [id |-> entry["id"],
     name |-> MGet(entry, "name", S_Unknown),
     type |-> MGet(entry, "type", S_Unknown),
     room |-> MGet(entry, "room", S_Unknown),
     protocols |-> MGet(entry, "protocols", {}),
     integrations |-> MGet(entry, "integrations", {}),
     status |-> MGet(entry, "status", "offline"),
     last_seen |-> MGet(entry, "last_seen", "Unknown"),
     firmware |-> MGet(entry, "firmware", "Unknown"),
     address |-> MGet(entry, "address", NoAddress),
     metadata |-> ref,
     capabilities |-> MGet(entry, "capabilities", EmptyDict)]

\* a registry: the devices and the heap of their metadata dicts
Registry(devs, heap) == [devices |-> devs, dicts |-> heap]

\* {entry["id"]: Device.from_dict(entry) for entry in devices}
RECURSIVE LoadEntries(_, _, _)
LoadEntries(entries, ids, registry) ==
    IF ids = {} THEN registry
    ELSE LET id == CHOOSE x \in ids : TRUE
         IN  LoadEntries(entries, ids \ {id},
                         Registry(Put(registry.devices, id,
                                      FromDict(entries[id], Len(registry.dicts) + 1)),
                                  Append(registry.dicts, MGet(entries[id], "metadata", EmptyDict))))

\* _seed_default_devices
SeedDefaultDevices(env) ==
    IF env.address = <<>> THEN Registry(EmptyDict, <<>>)
    ELSE Registry(Put(EmptyDict, S_seed_id,
                      [id |-> S_seed_id, name |-> S_seed_name, type |-> S_Display,
                       room |-> S_LivingRoom, protocols |-> {"bluetooth"},
                       integrations |-> {"scene"}, status |-> "offline", last_seen |-> "Seed",
                       firmware |-> "Unknown", address |-> env.address, metadata |-> 1,
                       capabilities |-> EmptyDict]),
                  <<IF env.power_char = <<>> THEN EmptyDict
                    ELSE Put(EmptyDict, "ble_power_char", env.power_char)>>)

\* a build that takes a store of any version
VersionOkAny(version) == TRUE

\* version != STATE_VERSION
VersionOk(version) == version = STATE_VERSION

\* lines 119-124: what the try block gives, or the exception it ends with
ReadStore(file) ==
    IF ~file.json THEN Err("JSONDecodeError")
    ELSE IF ~VersionOk(file.version) \/ ~file.list THEN Err("Invalid device store format")
    ELSE IF file.anonymous > 0 THEN Err("KeyError")
    ELSE Ok(LoadEntries(file.devices, DOMAIN file.devices, Registry(EmptyDict, <<>>)))

\* line 125, except Exception: every error of the try block is handled
ExceptException(error) == TRUE

\* _load_devices lets an error out
LoadRaises(file) ==
    IF ~file.exists THEN FALSE
    ELSE IF ReadStore(file).ok THEN FALSE
    ELSE ~ExceptException(ReadStore(file).error)

\* _load_devices: the registry it leaves
LoadedRegistry(file, env) ==
    IF ~file.exists THEN SeedDefaultDevices(env)
    ELSE IF ReadStore(file).ok THEN ReadStore(file).value
    ELSE SeedDefaultDevices(env)

\* history: the operation that ended last
Did(op, device_id, raised, io, file) ==
    [op |-> op, ops |-> IF op \in {"load", "homekit_refresh"} THEN done.ops ELSE done.ops + 1,
     device |-> device_id, command |-> <<>>, raised |-> raised, io |-> io,
     file |-> file]

Down == done.op = "none"
Up == done.op \notin {"none", "load"}

\* the number of requests served in one behaviour
MaxOps == 2

Serving == Up /\ done.ops < MaxOps

\* _load_devices, the first step of startup()
LoadDevices ==
    /\ Down
    /\ devices' = LoadedRegistry(persisted, environ).devices
    /\ dicts' = LoadedRegistry(persisted, environ).dicts
    /\ persisted' = IF ~persisted.exists /\ devices' # EmptyDict
                    THEN PersistDevices(devices', dicts')
                    ELSE persisted
    /\ done' = Did("load", <<>>, LoadRaises(persisted), "none", persisted)
    /\ UNCHANGED <<environ, functionVars, jobVars, samsungVars>>

\* the process stops and starts again: the registry is gone, the file stays
Restart ==
    /\ Up
    /\ devices' = EmptyDict
    /\ dicts' = <<>>
    /\ done' = [op |-> "none", ops |-> done.ops]
    /\ UNCHANGED <<persisted, environ, functionVars, jobVars, samsungVars>>

\* datetime.utcnow().isoformat()
Now == Timestamp

\* await self._persist_devices() of an operation that has left devs and heap
Persisted(devs, heap) == PersistDevices(devs, heap)

\* lines 168-173: the metadata of an accessory
AccessoryMetadata(accessory) ==
    [pairing_id |-> accessory.pairing_id, aid |-> accessory.aid, iid |-> accessory.iid,
     is_on |-> accessory.is_on]

AccessoryStatus(accessory) == IF accessory.is_on THEN "online" ELSE "offline"

\* existing.protocols = ["homekit"]
HomekitProtocols(protocols) == {"homekit"}

\* lines 176-185: an accessory whose identifier is in the registry
RefreshExisting(registry, accessory) ==
    Registry([registry.devices EXCEPT ![accessory.identifier] =
                  [@ EXCEPT !.name = accessory.name, !.room = accessory.room,
                            !.protocols = HomekitProtocols(@),
                            !.integrations = @ \cup {"homekit"},
                            !.status = AccessoryStatus(accessory),
                            !.last_seen = Now]],
             [registry.dicts EXCEPT ![registry.devices[accessory.identifier].metadata] =
                  Update(@, AccessoryMetadata(accessory))])

\* lines 187-200: an accessory that is new
RefreshNew(registry, accessory) ==
    Registry(Put(registry.devices, accessory.identifier,
                 [id |-> accessory.identifier, name |-> accessory.name, type |-> S_Accessory,
                  room |-> accessory.room, protocols |-> {"homekit"},
                  integrations |-> {"homekit"}, status |-> AccessoryStatus(accessory),
                  last_seen |-> Now, firmware |-> "Unknown", address |-> NoAddress,
                  metadata |-> Len(registry.dicts) + 1, capabilities |-> EmptyDict]),
             Append(registry.dicts, AccessoryMetadata(accessory)))

\* the loop of _refresh_homekit_cache over homekit_devices
RECURSIVE RefreshHomekitCache(_, _)
RefreshHomekitCache(registry, accessories) ==
    IF accessories = <<>> THEN registry
    ELSE RefreshHomekitCache(
             IF Head(accessories).identifier \in DOMAIN registry.devices
             THEN RefreshExisting(registry, Head(accessories))
             ELSE RefreshNew(registry, Head(accessories)),
             Tail(accessories))

\* the identifier of the first entry of a list, "" for an empty list
FirstIdentifier(entries) == IF entries = <<>> THEN <<>> ELSE Head(entries).identifier

\* await self._refresh_homekit_cache(), the last step of startup(); list_devices
\* gives accessories, none if it raises
StartupRefresh(accessories) ==
    /\ done.op = "load"
    /\ devices' = RefreshHomekitCache(Registry(devices, dicts), accessories).devices
    /\ dicts' = RefreshHomekitCache(Registry(devices, dicts), accessories).dicts
    /\ persisted' = IF accessories # <<>> THEN Persisted(devices', dicts') ELSE persisted
    /\ done' = Did("homekit_refresh", FirstIdentifier(accessories), FALSE, "none", NoFile)
    /\ UNCHANGED <<environ, functionVars, jobVars, samsungVars>>

\* lines 443-448: a scan entry whose identifier is in the registry
ScanExisting(registry, entry) ==
    Registry([registry.devices EXCEPT ![entry.identifier].address = entry.address],
             [registry.dicts EXCEPT ![registry.devices[entry.identifier].metadata] =
                  Update(@, [rssi |-> entry.rssi, last_scan |-> Now])])

\* lines 449-462: a scan entry that is new
ScanNew(registry, entry) ==
    Registry(Put(registry.devices, entry.identifier,
                 [id |-> entry.identifier, name |-> entry.name, type |-> S_Display,
                  room |-> S_Unassigned, protocols |-> {"bluetooth"}, integrations |-> {},
                  status |-> "offline", last_seen |-> Now, firmware |-> "Unknown",
                  address |-> entry.address, metadata |-> Len(registry.dicts) + 1,
                  capabilities |-> EmptyDict]),
             Append(registry.dicts, [rssi |-> entry.rssi, last_scan |-> Now]))

\* the loop of scan over ble_devices
RECURSIVE ScanEntries(_, _)
ScanEntries(registry, ble_devices) ==
    IF ble_devices = <<>> THEN registry
    ELSE ScanEntries(
             IF Head(ble_devices).identifier \in DOMAIN registry.devices
             THEN ScanExisting(registry, Head(ble_devices))
             ELSE ScanNew(registry, Head(ble_devices)),
             Tail(ble_devices))

\* scan(): the BLE entries, then the HomeKit refresh, then the write
Scan(ble_devices, accessories) ==
    /\ Serving
    /\ devices' = RefreshHomekitCache(ScanEntries(Registry(devices, dicts), ble_devices),
                                      accessories).devices
    /\ dicts' = RefreshHomekitCache(ScanEntries(Registry(devices, dicts), ble_devices),
                                    accessories).dicts
    /\ persisted' = Persisted(devices', dicts')
    /\ done' = Did("scan", IF ble_devices # <<>> THEN FirstIdentifier(ble_devices)
                           ELSE FirstIdentifier(accessories),
                   FALSE, "none", NoFile)
    /\ UNCHANGED <<environ, functionVars, jobVars, samsungVars>>

\* an operation on device_id raises before it has changed anything
Refused(op, device_id) ==
    /\ done' = Did(op, device_id, TRUE, "none", NoFile)
    /\ UNCHANGED registryVars

\* connect_device: bluetooth.connect gives True or False, or raises
ConnectDevice(device_id, outcome) ==
    /\ Serving
    /\ IF device_id \notin DOMAIN devices \/ devices[device_id].address \in {NoAddress, <<>>}
          \/ outcome = "raises"
       THEN Refused("connect_device", device_id)
       ELSE /\ devices' = [devices EXCEPT ![device_id].last_seen = Now,
                                          ![device_id].status =
                                              IF outcome = "true" THEN "online" ELSE "offline"]
            /\ dicts' = dicts
            /\ persisted' = Persisted(devices', dicts')
            /\ done' = Did("connect_device", device_id, FALSE, "bluetooth", NoFile)
    /\ UNCHANGED <<environ, functionVars, jobVars, samsungVars>>

\* update_device_metadata: existing.update(metadata), then the write
UpdateDeviceMetadata(device_id, metadata) ==
    /\ Serving
    /\ IF device_id \notin DOMAIN devices
       THEN Refused("update_device_metadata", device_id)
       ELSE /\ dicts' = [dicts EXCEPT ![devices[device_id].metadata] = Update(@, metadata)]
            /\ devices' = devices
            /\ persisted' = Persisted(devices', dicts')
            /\ done' = Did("update_device_metadata", device_id, FALSE, "none", NoFile)
    /\ UNCHANGED <<environ, functionVars, jobVars, samsungVars>>

\* lines 748-757 of pair_samsung_device: the client id and the ip are kept
SamsungPairingMetadata(md, ip_val) ==
    Put(IF Truthy(GetStr(md, "samsung_client_id")) \/ Truthy(GetStr(md, "smartview_client_id"))
        THEN md
        ELSE Put(md, "samsung_client_id", FreshClientId(1)),
        "samsung_ip", ip_val)

\* lines 774-781: a token was issued
SamsungPairedMetadata(md, token) ==
    Update(md, [samsung_token |-> token, paired |-> TRUE, trusted |-> TRUE])

\* pair_samsung_device: send_key yields a token, yields none, or raises
PairSamsungDevice(device_id, ip, outcome) ==
    /\ Serving
    /\ IF device_id \notin DOMAIN devices \/ Strip(ip) = <<>>
       THEN Refused("pair_samsung_device", device_id)
       ELSE /\ dicts' = [dicts EXCEPT ![devices[device_id].metadata] =
                             IF outcome = "token"
                             THEN SamsungPairedMetadata(SamsungPairingMetadata(@, Strip(ip)), S_77)
                             ELSE SamsungPairingMetadata(@, Strip(ip))]
            /\ devices' = IF outcome = "token"
                          THEN [devices EXCEPT ![device_id].status = "online",
                                               ![device_id].last_seen = Now,
                                               ![device_id].protocols = @ \cup {"samsung"}]
                          ELSE devices
            /\ persisted' = Persisted(devices', dicts')
            /\ done' = Did("pair_samsung_device", device_id, outcome = "raises", "samsung", NoFile)
    /\ UNCHANGED <<environ, functionVars, jobVars, samsungVars>>

\* transport = str(normalized.get("transport") or "ble").lower()
EntryTransport(entry) == Lower(Str(OrElse(Get(entry, "transport"), VStr(S_ble))))

\* if transport not in {"ble", "rfcomm", "samsung"}: transport = "ble"
IngestTransport(transport) ==
    IF transport \notin {S_ble, S_rfcomm, S_samsung} THEN S_ble ELSE transport

\* lines 1012-1016: the channel of an rfcomm entry becomes an int or is dropped
IngestChannel(normalized) ==
    IF normalized["transport"].v = S_rfcomm /\ Get(normalized, "rfcomm_channel").t # "none"
    THEN IF IntOf(normalized["rfcomm_channel"]).ok
         THEN Put(normalized, "rfcomm_channel", VInt(IntOf(normalized["rfcomm_channel"]).value))
         ELSE Remove(normalized, "rfcomm_channel")
    ELSE normalized

\* the copy of an entry that _ingest keeps
IngestEntry(entry) ==
    IngestChannel(Put(entry, "transport", VStr(IngestTransport(EntryTransport(entry)))))

\* _ingest(entries) on result
RECURSIVE Ingest(_, _)
Ingest(result, entries) ==
    IF entries = <<>> THEN result
    ELSE Ingest(IF RawStr(Head(entries), "id", <<>>) = <<>> THEN result
                ELSE Put(result, RawStr(Head(entries), "id", <<>>), IngestEntry(Head(entries))),
                Tail(entries))

CommandTables == <<"ble_commands", "classic_commands", "network_commands", "samsung_commands">>

\* _command_map for metadata without ble_commands_map and command_map
command_map(md) ==
    Ingest(Ingest(Ingest(Ingest(EmptyDict, MGet(md, "ble_commands", <<>>)),
                         MGet(md, "classic_commands", <<>>)),
                  MGet(md, "network_commands", <<>>)),
           MGet(md, "samsung_commands", <<>>))

\* what a transport handler did: whether it raised, which transport carried I/O,
\* and the bytes it returned
Handled(raised, io, response) == [raised |-> raised, io |-> io, response |-> response]

\* payload_hex is set and _decode_payload_hex raises on it
BadPayload(command) ==
    /\ RawStr(command, "payload_hex", <<>>) # <<>>
    /\ ~decode_payload_hex(RawStr(command, "payload_hex", <<>>)).ok

\* _perform_ble_command; bluetooth.send_command returns or raises
perform_ble_command(device, command, outcome) ==
    IF device.address \in {NoAddress, <<>>} THEN Handled(TRUE, "none", <<>>)
    ELSE IF RawStr(command, "characteristic", <<>>) = <<>> THEN Handled(TRUE, "none", <<>>)
    ELSE IF BadPayload(command) THEN Handled(TRUE, "none", <<>>)
    ELSE Handled(outcome = "raises", "ble", <<>>)

\* a build that looks the service name up before the service uuid
ChannelIdNameFirst(device, command) ==
    IF Get(command, "rfcomm_channel").t # "none"
    THEN Get(command, "rfcomm_channel")
    ELSE IF RawStr(command, "service_name", <<>>) # <<>>
    THEN resolve_rfcomm_channel(device.capabilities, RawStr(command, "service_name", <<>>))
    ELSE IF RawStr(command, "service_uuid", <<>>) # <<>>
    THEN resolve_rfcomm_channel(device.capabilities, RawStr(command, "service_uuid", <<>>))
    ELSE VNone

\* lines 1211-1226: channel_id, None if the command names no channel that resolves
ChannelId(device, command) ==
    IF Get(command, "rfcomm_channel").t # "none"
    THEN Get(command, "rfcomm_channel")
    ELSE IF RawStr(command, "service_uuid", <<>>) # <<>>
    THEN resolve_rfcomm_channel(device.capabilities, RawStr(command, "service_uuid", <<>>))
    ELSE IF RawStr(command, "service_name", <<>>) # <<>>
    THEN resolve_rfcomm_channel(device.capabilities, RawStr(command, "service_name", <<>>))
    ELSE VNone

\* lines 1211-1218: rfcomm_channel is given and is no int from 1 to 30
BadChannel(command) ==
    /\ Get(command, "rfcomm_channel").t # "none"
    /\ \/ ~IntOf(Get(command, "rfcomm_channel")).ok
       \/ IntOf(Get(command, "rfcomm_channel")).value <= 0
       \/ IntOf(Get(command, "rfcomm_channel")).value > RfcommChannelMax

\* lines 1240-1249: response_bytes is given and is no int >= 0
BadResponseBytes(command) ==
    /\ Get(command, "response_bytes").t # "none"
    /\ \/ ~IntOf(Get(command, "response_bytes")).ok
       \/ IntOf(Get(command, "response_bytes")).value < 0

\* expected_response
ExpectedResponse(command) ==
    IF Get(command, "response_bytes").t = "none" THEN 0
    ELSE IntOf(Get(command, "response_bytes")).value

\* _perform_rfcomm_command for a command without response_timeout and wait_ms;
\* classic_rfcomm.send_command returns the bytes asked for, fewer, or raises
perform_rfcomm_command(device, command, outcome) ==
    IF device.address \in {NoAddress, <<>>} THEN Handled(TRUE, "none", <<>>)
    ELSE IF BadChannel(command) THEN Handled(TRUE, "none", <<>>)
    ELSE IF ChannelId(device, command).t = "none" THEN Handled(TRUE, "none", <<>>)
    ELSE IF BadPayload(command) THEN Handled(TRUE, "none", <<>>)
    ELSE IF BadResponseBytes(command) THEN Handled(TRUE, "none", <<>>)
    ELSE IF outcome = "raises" THEN Handled(TRUE, "rfcomm", <<>>)
    ELSE Handled(FALSE, "rfcomm", [i \in 1..ExpectedResponse(command) |-> 1])

\* _execute_command for a command that is not sent over samsung
execute_command(device, command, outcome) ==
    IF EntryTransport(command) = S_rfcomm THEN perform_rfcomm_command(device, command, outcome)
    ELSE perform_ble_command(device, command, outcome)

\* bytes.hex()
HexDigits == <<"0", "1", "2", "3", "4", "5", "6", "7", "8", "9", "a", "b", "c", "d", "e", "f">>
RECURSIVE BytesHex(_)
BytesHex(bytes) ==
    IF bytes = <<>> THEN <<>>
    ELSE <<HexDigits[(Head(bytes) \div 16) + 1], HexDigits[(Head(bytes) % 16) + 1]>>
         \o BytesHex(Tail(bytes))

\* lines 642-651: last_entry
LastEntry(command_id, transport, response) ==
    IF response = <<>> THEN [id |-> command_id, at |-> Now, transport |-> transport]
    ELSE [id |-> command_id, at |-> Now, transport |-> transport,
          response_len |-> Len(response), response_hex |-> BytesHex(response)]

\* lines 651-663 on the metadata
CommandMetadata(md, command_id, transport, response, status) ==
    IF PowerAfter(command_id, md, status) = ""
    THEN Put(md, "last_command", LastEntry(command_id, transport, response))
    ELSE Put(Put(md, "last_command", LastEntry(command_id, transport, response)),
             "is_on", PowerAfter(command_id, md, status) = "on")

\* lines 628-634 of send_command: has_proto or has_meta
SamsungAssociated(device, md) ==
    \/ device.protocols \cap {"samsung", "smartview"} # {}
    \/ DOMAIN md \cap {"samsung_token", "samsung_client_id", "smartview_token", "samsung_ip"} # {}

\* lines 622-636: the checks of send_command on the transport of the command
TransportRefused(device, transport) ==
    IF transport \in {S_ble, S_rfcomm}
    THEN "bluetooth" \notin device.protocols \/ device.address \in {NoAddress, <<>>}
    ELSE transport # S_samsung

\* history: send_command on command_id ended
DidCommand(device_id, command_id, raised, io) ==
    [Did("send_command", device_id, raised, io, NoFile) EXCEPT !.command = command_id]

\* send_command raises before a handler runs
RefusedCommand(device_id, command_id) ==
    /\ done' = DidCommand(device_id, command_id, TRUE, "none")
    /\ UNCHANGED registryVars

\* send_command for a command that is not sent over samsung: the handler returns
\* or raises as outcome says
\* the stored command goes to the television's network handler
StoredForSamsung(device_id, command_id) ==
    IF device_id \notin DOMAIN devices
    THEN FALSE
    ELSE IF command_id \notin DOMAIN command_map(dicts[devices[device_id].metadata])
    THEN FALSE
    ELSE EntryTransport(command_map(dicts[devices[device_id].metadata])[command_id]) = S_samsung

SendCommand(device_id, command_id, outcome) ==
    /\ Serving
    /\ ~StoredForSamsung(device_id, command_id)
    /\ IF device_id \notin DOMAIN devices
       THEN Refused("send_command", device_id)
       ELSE LET md       == dicts[devices[device_id].metadata]
                commands == command_map(md)
            IN  IF command_id \notin DOMAIN commands
                THEN RefusedCommand(device_id, command_id)
                ELSE IF TransportRefused(devices[device_id], EntryTransport(commands[command_id]))
                THEN RefusedCommand(device_id, command_id)
                ELSE LET handled == execute_command(devices[device_id], commands[command_id], outcome)
                     IN  IF handled.raised
                         THEN /\ done' = DidCommand(device_id, command_id, TRUE, handled.io)
                              /\ UNCHANGED registryVars
                         ELSE /\ dicts' = [dicts EXCEPT ![devices[device_id].metadata] =
                                               CommandMetadata(md, command_id,
                                                               EntryTransport(commands[command_id]),
                                                               handled.response,
                                                               devices[device_id].status)]
                              /\ devices' = [devices EXCEPT
                                                ![device_id].last_seen = Now,
                                                ![device_id].status =
                                                    CommandStatus(command_id, md, @)]
                              /\ persisted' = Persisted(devices', dicts')
                              /\ done' = DidCommand(device_id, command_id, FALSE, handled.io)
    /\ UNCHANGED <<environ, functionVars, jobVars, samsungVars>>

(***************************************************************************)
(* The hub's inputs: the store file found at the first start, the          *)
(* environment, and the arguments of the operations                        *)
(***************************************************************************)
\* a dict literal as a function on its keys
Dict(r) == [k \in DOMAIN r |-> r[k]]

\* an entry as to_dict writes it, with a status of an older build
TvEntry ==
    Dict([id |-> S_tv, name |-> <<"T", "V">>, type |-> S_Display, room |-> S_Unassigned,
          protocols |-> {"bluetooth"}, integrations |-> {"scene"}, status |-> "standby",
          last_seen |-> "Never", firmware |-> "Unknown", address |-> S_address,
          metadata |-> EmptyDict, capabilities |-> EmptyDict, paired |-> FALSE,
          trusted |-> FALSE])

\* an entry with nothing but its id
LampEntry == Dict([id |-> S_lamp])

\* state/devices.json at the first start: missing, not JSON, of another version,
\* without a list of devices, with an entry that has no id, and two stores that load
HubFiles ==
    <<NoFile,
      StoreFile(TRUE, FALSE, 0, FALSE, EmptyDict, 0),
      StoreFile(TRUE, TRUE, STATE_VERSION + 1, TRUE, Put(EmptyDict, S_tv, TvEntry), 0),
      StoreFile(TRUE, TRUE, STATE_VERSION, FALSE, EmptyDict, 0),
      StoreFile(TRUE, TRUE, STATE_VERSION, TRUE, Put(EmptyDict, S_tv, TvEntry), 1),
      StoreFile(TRUE, TRUE, STATE_VERSION, TRUE, Put(EmptyDict, S_tv, TvEntry), 0),
      StoreFile(TRUE, TRUE, STATE_VERSION, TRUE, Put(EmptyDict, S_lamp, LampEntry), 0)>>

\* OMNICONTROL_DISPLAY_BT_ADDR and OMNICONTROL_DISPLAY_POWER_CHAR
Environs ==
    <<[address |-> <<>>, power_char |-> <<>>],
      [address |-> S_address, power_char |-> <<>>],
      [address |-> S_address, power_char |-> S_ff01]>>

Cmd_zigbee ==
    Dict([id |-> VStr(<<"z">>), transport |-> VStr(<<"z", "i", "g", "b", "e", "e">>),
          characteristic |-> VStr(S_ff01), payload_hex |-> VStr(<<"0", "1">>)])

Cmd_volume ==
    Dict([id |-> VStr(<<"v", "o", "l">>), transport |-> VStr(S_rfcomm),
          rfcomm_channel |-> VStr(<<" ", "3">>), payload_hex |-> VStr(<<"0", "a">>),
          response_bytes |-> VInt(1)])

\* an entry under the id of Cmd_power_on that names no characteristic
Cmd_power_on_bare == Dict([id |-> VStr(S_power_on), transport |-> VStr(S_ble)])

\* the bodies of POST /api/devices/{device_id}/metadata
MetadataPayloads ==
    <<Put(EmptyDict, "ble_commands", <<Dict(Cmd_power_on), Cmd_zigbee>>),
      Put(EmptyDict, "classic_commands", <<Cmd_volume>>),
      Put(EmptyDict, "ble_commands", <<Dict(Cmd_no_characteristic)>>),
      Put(Put(EmptyDict, "ble_commands", <<Dict(Cmd_power_on)>>),
          "network_commands", <<Cmd_power_on_bare>>)>>

CommandIds == {S_power_on, <<"z">>, <<"v", "o", "l">>, <<"x">>}

DeviceIds == {S_tv, S_lamp, S_seed_id}

\* what bluetooth.scan finds
BleScans ==
    <<<<>>, <<[identifier |-> S_tv, name |-> <<"T", "V">>, address |-> S_address, rssi |-> 0 - 40]>>>>

Lamp(is_on) ==
    [identifier |-> S_lamp, name |-> <<"L", "a", "m", "p">>, room |-> S_LivingRoom,
     pairing_id |-> <<"p", "1">>, aid |-> 1, iid |-> 9, is_on |-> is_on]

\* what homekit.list_devices gives
AccessoryLists == <<<<>>, <<Lamp(TRUE)>>, <<Lamp(FALSE)>>>>

HubInit ==
    /\ \E i \in 1..Len(HubFiles) : persisted = HubFiles[i]
    /\ \E i \in 1..Len(Environs) : environ = Environs[i]
    /\ devices = EmptyDict
    /\ dicts = <<>>
    /\ done = [op |-> "none", ops |-> 0]
    /\ addrIn = AddrDashed
    /\ addrDM = NoResult
    /\ addrBT = NoResult
    /\ pairing_jobs = EmptyDict
    /\ task = EmptyDict
    /\ PerformIdle
    /\ BluezIdle
    /\ NormIdle
    /\ ResolveIdle
    /\ RfcommIdle
    /\ SamsungIdle

HubNext ==
    \/ LoadDevices
    \/ \E i \in 1..Len(AccessoryLists) : StartupRefresh(AccessoryLists[i])
    \/ \E i \in 1..Len(BleScans), k \in 1..Len(AccessoryLists) : Scan(BleScans[i], AccessoryLists[k])
    \/ \E device_id \in DeviceIds, outcome \in {"true", "false", "raises"} :
           ConnectDevice(device_id, outcome)
    \/ \E device_id \in DeviceIds, i \in 1..Len(MetadataPayloads) :
           UpdateDeviceMetadata(device_id, MetadataPayloads[i])
    \/ \E device_id \in DeviceIds, ip \in {<<" ">>, Ip1}, outcome \in {"token", "none", "raises"} :
           PairSamsungDevice(device_id, ip, outcome)
    \/ \E device_id \in DeviceIds, command_id \in CommandIds, outcome \in {"returns", "raises"} :
           SendCommand(device_id, command_id, outcome)
    \/ Restart

SpecHub == HubInit /\ [][HubNext]_vars

(***************************************************************************)
(* DeviceManager._perform_rfcomm_command on its own, followed by the call  *)
(* of classic_rfcomm.send_command that it makes                            *)
(***************************************************************************)
S_channel_missing == "RFCOMM command missing channel; supply rfcomm_channel or service reference"

\* lines 1202-1225: the channel the handler settles on, or the ValueError it raises
SettledChannel(device, command) ==
    IF device.address \in {NoAddress, <<>>} THEN Err("Bluetooth device missing address")
    ELSE IF Get(command, "rfcomm_channel").t # "none" /\ ~IntOf(Get(command, "rfcomm_channel")).ok
    THEN Err("rfcomm_channel must be an integer")
    ELSE IF BadChannel(command) THEN Err("rfcomm_channel must be between 1 and 30")
    ELSE IF ChannelId(device, command).t = "none" THEN Err(S_channel_missing)
    ELSE Ok(IntOf(ChannelId(device, command)).value)

\* lines 1227-1234: payload
PayloadBytes(command) ==
    IF RawStr(command, "payload_hex", <<>>) # <<>>
    THEN decode_payload_hex(RawStr(command, "payload_hex", <<>>)).value
    ELSE <<>>

Cmd_channel_5 == Dict([id |-> VStr(S_input), transport |-> VStr(S_rfcomm), rfcomm_channel |-> VInt(5)])
Cmd_channel_7_uuid ==
    Dict([id |-> VStr(S_input), transport |-> VStr(S_rfcomm), rfcomm_channel |-> VStr(<<" ", "7">>),
          service_uuid |-> VStr(U_110b), payload_hex |-> VStr(<<"0", "a">>),
          response_bytes |-> VInt(1)])
Cmd_uuid ==
    Dict([id |-> VStr(S_input), transport |-> VStr(S_rfcomm), service_uuid |-> VStr(U_110b),
          service_name |-> VStr(S_SerialPort), payload_hex |-> VStr(<<"0", "a">>)])
Cmd_name ==
    Dict([id |-> VStr(S_input), transport |-> VStr(S_rfcomm), service_name |-> VStr(S_SerialPort),
          response_bytes |-> VInt(1)])
Cmd_unknown_uuid ==
    Dict([id |-> VStr(S_input), transport |-> VStr(S_rfcomm),
          service_uuid |-> VStr(<<"z", "i", "g", "b", "e", "e">>), service_name |-> VStr(S_SerialPort)])
Cmd_no_channel ==
    Dict([id |-> VStr(S_input), transport |-> VStr(S_rfcomm), payload_hex |-> VStr(<<"0", "a">>)])
Cmd_channel_31 ==
    Dict([id |-> VStr(S_input), transport |-> VStr(S_rfcomm), rfcomm_channel |-> VInt(31),
          service_name |-> VStr(S_SerialPort)])
Cmd_channel_x ==
    Dict([id |-> VStr(S_input), transport |-> VStr(S_rfcomm), rfcomm_channel |-> VStr(<<"x">>)])
Cmd_odd_payload ==
    Dict([id |-> VStr(S_input), transport |-> VStr(S_rfcomm), rfcomm_channel |-> VInt(5),
          payload_hex |-> VStr(<<"0", "1", "2">>)])

\* the commands handed to _perform_rfcomm_command
PerformCommands ==
    <<Cmd_channel_5, Cmd_channel_7_uuid, Cmd_uuid, Cmd_name, Cmd_unknown_uuid, Cmd_no_channel,
      Cmd_channel_31, Cmd_channel_x, Cmd_odd_payload>>

\* a device with the capabilities of an inspection and the command it is sent
PerformInputs ==
    [channels : 1..Len(ChannelMaps), services : ServiceChoices, command : 1..Len(PerformCommands)]

PerformDevice(in) == [address |-> S_address, capabilities |-> CapabilitiesOf(in)]

\* _perform_rfcomm_command up to asyncio.to_thread(classic_rfcomm.send_command, ...)
PerformRfcommCommand ==
    /\ performed = NoResult
    /\ LET device  == PerformDevice(performIn)
           command == PerformCommands[performIn.command]
           settled == SettledChannel(device, command)
       IN  /\ performed' = settled
           /\ rfcommCall' =
                  IF settled.ok /\ ~BadPayload(command) /\ ~BadResponseBytes(command)
                  THEN NewRfcommCall([channel |-> settled.value, payload |-> PayloadBytes(command),
                                      response_bytes |-> ExpectedResponse(command)])
                  ELSE rfcommCall
    /\ UNCHANGED <<performIn, addrVars, normVars, resolveVars, bluezVars, registryVars, hubVars,
                   jobVars, samsungVars>>

ChannelInit ==
    /\ performIn \in PerformInputs
    /\ performed = NoResult
    /\ BluezIdle
    /\ addrIn = AddrDashed
    /\ addrDM = NoResult
    /\ addrBT = NoResult
    /\ devices = EmptyDict
    /\ dicts = <<>>
    /\ persisted = NoFile
    /\ pairing_jobs = EmptyDict
    /\ task = EmptyDict
    /\ NormIdle
    /\ ResolveIdle
    /\ RfcommIdle
    /\ SamsungIdle
    /\ HubIdle

ChannelNext ==
    \/ PerformRfcommCommand
    \/ RfcommOpen
    \/ RfcommConnect
    \/ RfcommSendall
    \/ RfcommRecv

SpecChannel == ChannelInit /\ [][ChannelNext]_vars

(***************************************************************************)
(* BluetoothController.pair_and_trust, _ensure_agent and _run_bluetoothctl *)
(* One action per stretch of code between two awaits.  Each caller is a    *)
(* task of the event loop; _agent_ready and _agent_lock are shared.        *)
(***************************************************************************)
\* the tasks that pair side by side
Callers == {1, 2}

\* at most MaxPairCalls calls of pair_and_trust in one behaviour
MaxPairCalls == 2

S_pair_address == "AA:BB:CC:DD:EE:FF"

\* script = f"agent {self._agent_mode}\ndefault-agent\nquit\n"
AgentScript(mode) == "agent " \o mode \o "\ndefault-agent\nquit\n"

\* _run_bluetoothctl(args), lines 296-312: the process that subprocess.run starts.
\* cmd is built from args and used only after the return of line 312.
run_bluetoothctl(args, mode) == [argv |-> <<"bluetoothctl">>, input |-> AgentScript(mode)]

\* what bluetoothctl prints
T_nothing == <<>>
T_failed == <<"F", "a", "i", "l", "e", "d">>
T_already_exists ==
    <<"o", "r", "g", ".", "b", "l", "u", "e", "z", ".", "E", "r", "r", "o", "r", ".",
      "A", "l", "r", "e", "a", "d", "y", "E", "x", "i", "s", "t", "s">>
T_trusted_devices == <<"T", "r", "u", "s", "t", "e", "d", " ", "d", "e", "v", "i", "c", "e", "s", ":">>

\* _is_already_paired
is_already_paired(output) ==
    \/ Contains(Lower(output), <<"a", "l", "r", "e", "a", "d", "y", " ", "p", "a", "i", "r", "e", "d">>)
    \/ Contains(Lower(output), <<"a", "l", "r", "e", "a", "d", "y", "e", "x", "i", "s", "t", "s">>)
    \/ Contains(Lower(output), <<"a", "l", "r", "e", "a", "d", "y", " ", "e", "x", "i", "s", "t", "s">>)

\* _is_already_trusted
is_already_trusted(output) ==
    \/ Contains(Lower(output), <<"a", "l", "r", "e", "a", "d", "y", " ", "t", "r", "u", "s", "t", "e", "d">>)
    \/ Contains(Lower(output), Lower(T_trusted_devices))

\* the exit code and the output of a process
ProcessResults ==
    {[returncode |-> 0, output |-> T_nothing],
     [returncode |-> 1, output |-> T_failed],
     [returncode |-> 1, output |-> T_already_exists],
     [returncode |-> 1, output |-> T_trusted_devices]}

NoPairCall ==
    [pc |-> "idle", direct |-> FALSE, ensured |-> FALSE, waited |-> FALSE, runs |-> <<>>,
     error |-> ""]

\* history: the process of one _run_bluetoothctl call, the args it was called with
\* and what the process gave
Ran(args, result) ==
    [argv |-> run_bluetoothctl(args, "NoInputNoOutput").argv,
     input |-> run_bluetoothctl(args, "NoInputNoOutput").input,
     args |-> args, returncode |-> result.returncode, output |-> result.output]

\* release of _agent_lock: the lock is free, a waiter is woken in its turn
Released(state) == [state EXCEPT !.lock = 0]

\* the body of _ensure_agent under the lock, up to its first await: the state of
\* the controller and the position of the caller
EnsureAgent(state, c) ==
    IF state.ready THEN [state |-> Released(state), pc |-> "scan"]
    ELSE IF state.agent_class # "None" THEN [state |-> [state EXCEPT !.lock = c], pc |-> "start"]
    ELSE [state |-> Released([state EXCEPT !.ready = TRUE]), pc |-> "scan"]

\* async with self._agent_lock: taken at once when it is free and nobody waits
AcquireAgentLock(c) ==
    IF bluez.lock # 0 \/ bluez.waiters # <<>>
    THEN /\ bluez' = [bluez EXCEPT !.waiters = Append(@, c)]
         /\ pairCall' = [pairCall EXCEPT ![c].pc = "lock", ![c].ensured = TRUE,
                                         ![c].waited = TRUE]
    ELSE /\ bluez' = EnsureAgent(bluez, c).state
         /\ pairCall' = [pairCall EXCEPT ![c].pc = EnsureAgent(bluez, c).pc, ![c].ensured = TRUE]

BluezUnchanged ==
    UNCHANGED <<addrVars, normVars, resolveVars, rfcommCall, performVars, registryVars, hubVars,
                jobVars, samsungVars>>

\* pair_and_trust is called
PairAndTrust(c) ==
    /\ pairCall[c].pc \in {"idle", "returned", "raised"}
    /\ bluez.calls < MaxPairCalls
    /\ bluez' = [bluez EXCEPT !.calls = @ + 1]
    /\ pairCall' = [pairCall EXCEPT ![c] = [NoPairCall EXCEPT !.pc = "connect"]]
    /\ BluezUnchanged

\* async with BleakClient(normalized): connected, or not connected or an exception
DirectConnect(c) ==
    /\ pairCall[c].pc = "connect"
    /\ \/ /\ pairCall' = [pairCall EXCEPT ![c].pc = "returned", ![c].direct = TRUE]
          /\ UNCHANGED bluez
       \/ AcquireAgentLock(c)
    /\ BluezUnchanged

\* the lock is released to the first waiter
AgentLockAcquired(c) ==
    /\ pairCall[c].pc = "lock"
    /\ bluez.lock = 0
    /\ bluez.waiters # <<>> /\ Head(bluez.waiters) = c
    /\ bluez' = EnsureAgent([bluez EXCEPT !.waiters = Tail(@)], c).state
    /\ pairCall' = [pairCall EXCEPT ![c].pc = EnsureAgent(bluez, c).pc]
    /\ BluezUnchanged

\* await agent.start() returns, or raises; after the except branch line 252 reads
\* self._register_agent_via_bluetoothctl, which the class does not define
AgentStarted(c) ==
    /\ pairCall[c].pc = "start"
    /\ \/ /\ bluez' = Released([bluez EXCEPT !.ready = TRUE, !.attempts = @ + 1,
                                             !.registered = @ + 1])
          /\ pairCall' = [pairCall EXCEPT ![c].pc = "scan"]
       \/ /\ bluez' = Released([bluez EXCEPT !.attempts = @ + 1])
          /\ pairCall' = [pairCall EXCEPT ![c].pc = "raised", ![c].error = "AttributeError"]
    /\ BluezUnchanged

\* scan_result = await asyncio.to_thread(self._run_bluetoothctl, [..., "scan", "on"])
RunScanOn(c) ==
    /\ pairCall[c].pc = "scan"
    /\ \/ pairCall' = [pairCall EXCEPT ![c].pc = "raised", ![c].error = "bluetoothctl not found"]
       \/ \E result \in ProcessResults :
             pairCall' = [pairCall EXCEPT
                             ![c].runs = Append(@, Ran(<<"--timeout", "15", "scan", "on">>, result)),
                             ![c].pc = IF result.returncode # 0 THEN "pair" ELSE "scan_off"]
    /\ UNCHANGED bluez
    /\ BluezUnchanged

\* await asyncio.to_thread(self._run_bluetoothctl, ["scan", "off"])
RunScanOff(c) ==
    /\ pairCall[c].pc = "scan_off"
    /\ \E result \in ProcessResults :
          pairCall' = [pairCall EXCEPT ![c].runs = Append(@, Ran(<<"scan", "off">>, result)),
                                       ![c].pc = "pair"]
    /\ UNCHANGED bluez
    /\ BluezUnchanged

\* pair_result and the check of lines 226-227
RunPair(c) ==
    /\ pairCall[c].pc = "pair"
    /\ \E result \in ProcessResults :
          pairCall' = [pairCall EXCEPT
                          ![c].runs = Append(@, Ran(<<"--timeout", "15", "pair", S_pair_address>>, result)),
                          ![c].pc = IF result.returncode # 0 /\ ~is_already_paired(result.output)
                                    THEN "raised" ELSE "trust",
                          ![c].error = IF result.returncode # 0 /\ ~is_already_paired(result.output)
                                       THEN "bluetoothctl pair failed" ELSE ""]
    /\ UNCHANGED bluez
    /\ BluezUnchanged

\* trust_result and the check of lines 230-231
RunTrust(c) ==
    /\ pairCall[c].pc = "trust"
    /\ \E result \in ProcessResults :
          pairCall' = [pairCall EXCEPT
                          ![c].runs = Append(@, Ran(<<"--timeout", "5", "trust", S_pair_address>>, result)),
                          ![c].pc = IF result.returncode # 0 /\ ~is_already_trusted(result.output)
                                    THEN "raised" ELSE "returned",
                          ![c].error = IF result.returncode # 0 /\ ~is_already_trusted(result.output)
                                       THEN "bluetoothctl trust failed" ELSE ""]
    /\ UNCHANGED bluez
    /\ BluezUnchanged

\* the controller after __init__; the import of lines 10-14 has given the class or None
BluezInit ==
    /\ \E agent_class \in {"BluezAgent", "None"} :
          bluez = [ready |-> FALSE, lock |-> 0, waiters |-> <<>>, agent_class |-> agent_class,
                   registered |-> 0, attempts |-> 0, calls |-> 0]
    /\ pairCall = [c \in Callers |-> NoPairCall]
    /\ PerformIdle
    /\ addrIn = AddrDashed
    /\ addrDM = NoResult
    /\ addrBT = NoResult
    /\ devices = EmptyDict
    /\ dicts = <<>>
    /\ persisted = NoFile
    /\ pairing_jobs = EmptyDict
    /\ task = EmptyDict
    /\ NormIdle
    /\ ResolveIdle
    /\ RfcommIdle
    /\ SamsungIdle
    /\ HubIdle

BluezNext ==
    \/ \E c \in Callers : PairAndTrust(c)
    \/ \E c \in Callers : DirectConnect(c)
    \/ \E c \in Callers : AgentLockAcquired(c)
    \/ \E c \in Callers : AgentStarted(c)
    \/ \E c \in Callers : RunScanOn(c)
    \/ \E c \in Callers : RunScanOff(c)
    \/ \E c \in Callers : RunPair(c)
    \/ \E c \in Callers : RunTrust(c)

SpecBluez == BluezInit /\ [][BluezNext]_vars

(***************************************************************************)
(* Pairing jobs with update_device_metadata requests served while the jobs *)
(* are suspended at their awaits                                           *)
(***************************************************************************)
S_notes == <<"n", "o", "t", "e", "s">>

\* the bodies of POST /api/devices/{device_id}/metadata sent during pairing
NotePayloads ==
    <<Put(EmptyDict, "notes", S_notes),
      Put(Put(EmptyDict, "notes", <<"n">>), "icon", S_tv)>>

\* the jobs that are suspended in pair_bluetooth_device for the device
SuspendedOn(device_id) ==
    {j \in DOMAIN task : task[j].pc \in {"pair_and_trust", "inspect"} /\ task[j].device_id = device_id}

\* existing = device.metadata or {}; existing.update(metadata); device.metadata = existing:
\* an empty metadata dict gives way to a new dict object
MergedMetadata(devs, heap, device_id, metadata) ==
    LET ref == LocalMetadata(devs[device_id], heap)
    IN  [devices |-> [devs EXCEPT ![device_id].metadata = ref],
         dicts   |-> IF ref > Len(heap) THEN Append(heap, Update(EmptyDict, metadata))
                     ELSE [heap EXCEPT ![ref] = Update(@, metadata)]]

\* update_device_metadata, which has no await before its persist, served between
\* two steps of the pairing tasks; done keeps the request and the jobs that were
\* suspended on the device
UpdateDuringPairing(device_id, metadata) ==
    /\ done.ops < MaxOps
    /\ IF device_id \notin DOMAIN devices
       THEN Refused("update_device_metadata", device_id)
       ELSE LET merged == MergedMetadata(devices, dicts, device_id, metadata)
            IN  /\ devices' = merged.devices
                /\ dicts' = merged.dicts
                /\ persisted' = Persisted(merged.devices, merged.dicts)
                /\ done' = Update(Did("update_device_metadata", device_id, FALSE, "none", NoFile),
                                  [written |-> metadata, suspended |-> SuspendedOn(device_id)])
    /\ UNCHANGED <<environ, functionVars, jobVars, samsungVars>>

\* the device ids of the pairing requests
RequestedIds == {PairRequest[payload].device_id : payload \in Payloads}

PairUpdateNext ==
    \/ \E payload \in Payloads : StartPairingJob(payload)
    \/ \E j \in JobIds : JobRun(j)
    \/ \E j \in JobIds : PairAndTrustReturn(j)
    \/ \E j \in JobIds : InspectReturn(j)
    \/ \E device_id \in RequestedIds, i \in 1..Len(NotePayloads) :
           UpdateDuringPairing(device_id, NotePayloads[i])

SpecPairUpdate == PairInit /\ [][PairUpdateNext]_vars

(***************************************************************************)
(* DeviceManager.scan served while pairing jobs run                        *)
(***************************************************************************)
\* identifier = device.address.lower().replace(":", "")
ScanIdentifier(address) == Lower(SelectSeq(address, LAMBDA ch : ch # ":"))

\* a BluetoothDevice of BluetoothController.scan for a device BleakScanner found
BleEntry(address, name, rssi) ==
    [identifier |-> ScanIdentifier(address), name |-> IF name = <<>> THEN address ELSE name,
     address |-> address, rssi |-> rssi]

\* a BluetoothDevice of _scan_classic_devices for a line of bluetoothctl devices
ClassicEntry(address, name) ==
    [identifier |-> ScanIdentifier(address), name |-> name, address |-> address, rssi |-> None]

\* the merge of the classic listing: an address BLE found keeps its BLE entry
\* and takes the classic name if it has none of its own
RECURSIVE MergeClassic(_, _)
MergeClassic(results, classic) ==
    IF classic = <<>> THEN results
    ELSE LET c == Head(classic)
             seen == {i \in 1..Len(results) : Upper(results[i].address) = Upper(c.address)}
         IN  MergeClassic(
                 IF seen = {} THEN Append(results, c)
                 ELSE [i \in 1..Len(results) |->
                          IF i \in seen /\ results[i].name \in {<<>>, results[i].address}
                                        /\ c.name # <<>>
                          THEN [results[i] EXCEPT !.name = c.name]
                          ELSE results[i]],
                 Tail(classic))

\* what BleakScanner.discover finds: nothing, or the television under the
\* address the pairing requests name, without a name of its own
BleFinds == <<<<>>, <<BleEntry(S_address, <<>>, 0 - 40)>>>>

\* what bluetoothctl lists: nothing, or the same television by name
ClassicFinds == <<<<>>, <<ClassicEntry(S_address, <<"T", "V">>)>>>>

\* scan() from await self.bluetooth.scan(...) to await self._refresh_homekit_cache():
\* the loop over the entries
ScanFound(ble, classic) ==
    /\ done.op # "scanning"
    /\ done.ops < MaxOps
    /\ devices' = ScanEntries(Registry(devices, dicts), MergeClassic(ble, classic)).devices
    /\ dicts' = ScanEntries(Registry(devices, dicts), MergeClassic(ble, classic)).dicts
    /\ done' = Did("scanning", FirstIdentifier(MergeClassic(ble, classic)), FALSE, "none", NoFile)
    /\ UNCHANGED <<persisted, environ, functionVars, jobVars, samsungVars>>

\* scan() from the return of homekit.list_devices to its end
ScanRefreshed(accessories) ==
    /\ done.op = "scanning"
    /\ devices' = RefreshHomekitCache(Registry(devices, dicts), accessories).devices
    /\ dicts' = RefreshHomekitCache(Registry(devices, dicts), accessories).dicts
    /\ persisted' = Persisted(devices', dicts')
    /\ done' = [done EXCEPT !.op = "scan"]
    /\ UNCHANGED <<environ, functionVars, jobVars, samsungVars>>

ScanPairNext ==
    \/ \E payload \in Payloads : StartPairingJob(payload)
    \/ \E j \in JobIds : JobRun(j)
    \/ \E j \in JobIds : PairAndTrustReturn(j)
    \/ \E j \in JobIds : InspectReturn(j)
    \/ \E i \in 1..Len(BleFinds), k \in 1..Len(ClassicFinds) : ScanFound(BleFinds[i], ClassicFinds[k])
    \/ \E k \in 1..Len(AccessoryLists) : ScanRefreshed(AccessoryLists[k])

SpecScanPair == PairInit /\ [][ScanPairNext]_vars

(***************************************************************************)
(* DeviceManager.send_command for a stored command of the samsung          *)
(* transport, with the exchange of SamsungRemoteController.send_key        *)
(***************************************************************************)
S_power_toggle == <<"p", "o", "w", "e", "r", "_", "t", "o", "g", "g", "l", "e">>
S_KEY_POWER == <<"K", "E", "Y", "_", "P", "O", "W", "E", "R">>

\* a stored command that presses the power key
StoredPowerCommand(command_id) ==
    Dict([id |-> VStr(command_id), transport |-> VStr(S_samsung), key |-> VStr(S_KEY_POWER)])

PowerIds == {S_power_on, S_power_off, S_power_toggle}

\* metadata["samsung_commands"] of the television
StoredPowerCommands ==
    <<StoredPowerCommand(S_power_on), StoredPowerCommand(S_power_off),
      StoredPowerCommand(S_power_toggle)>>

\* the entry of _command_map as the dict that _perform_samsung_command reads
Untagged(entry) == [key \in DOMAIN entry |-> entry[key].v]

\* send_command up to the call of send_key, for a command that _command_map gives the
\* samsung transport: lines 628-634, then _perform_samsung_command
SendSamsungCommand(c, device_id, command_id) ==
    /\ issued < MaxCommands
    /\ call[c].pc = "idle"
    /\ \A o \in Clients : o < c => call[o].pc # "idle"
    /\ StoredForSamsung(device_id, command_id)
    /\ issued' = issued + 1
    /\ LET device == devices[device_id]
           md     == dicts[device.metadata]
           entry  == Untagged(command_map(md)[command_id])
       IN  IF ~SamsungAssociated(device, md)
           THEN UNCHANGED <<call, registryVars, controllerVars, last, yielded>>
           ELSE Begin(c, device_id, LocalMetadata(device, dicts), md,
                      [PerformArguments(entry, md, device, FreshClientId(issued + 1))
                          EXCEPT !.command_id = command_id])
    /\ UNCHANGED <<functionVars, hubVars, jobVars>>

\* the television with its stored commands: known by its address only, by its
\* samsung_ip, or with a token as well
PowerTvMetadata ==
    { Put(md, "samsung_commands", StoredPowerCommands) :
        md \in {EmptyDict} \cup {m \in TvMetadata : "smartview_token" \notin DOMAIN m} }

SendSamsungInit ==
    /\ addrIn = AddrDashed
    /\ addrDM = NoResult
    /\ addrBT = NoResult
    /\ pairing_jobs = EmptyDict
    /\ task = EmptyDict
    /\ \E md \in PowerTvMetadata : dicts = <<md>>
    /\ \E protocols \in TvProtocols :
          devices = Put(EmptyDict, S_tv, [Television(1) EXCEPT !.protocols = protocols])
    /\ persisted = PersistDevices(devices, dicts)
    /\ PerformIdle
    /\ BluezIdle
    /\ NormIdle
    /\ ResolveIdle
    /\ RfcommIdle
    /\ HubIdle
    /\ issued = 0
    /\ call = [c \in Clients |-> NoCall]
    /\ locks = EmptyDict
    /\ sockets = EmptyDict
    /\ socket_connected = EmptyDict
    /\ websockets = <<>>
    /\ last = EmptyDict
    /\ yielded = EmptyDict

SendSamsungNext ==
    \/ \E c \in Clients, device_id \in DOMAIN devices, command_id \in PowerIds :
           SendSamsungCommand(c, device_id, command_id)
    \/ \E c \in Clients : LockAcquired(c)
    \/ \E c \in Clients : SocketOpened(c)
    \/ \E c \in Clients : ConnectSent(c)
    \/ \E c \in Clients : HandshakeDrained(c)
    \/ \E c \in Clients : KeySent(c)
    \/ \E c \in Clients : AckDrained(c)
    \/ \E c \in Clients : SocketClosed(c)
    \/ \E ip \in DOMAIN sockets : PeerCloses(ip)

SpecSendSamsung == SendSamsungInit /\ [][SendSamsungNext]_vars

(***************************************************************************)
(* C10                                                                     *)
(***************************************************************************)
\* C10 as stated: for an input in an accepted form, twelve hex digits give the
\* canonical address from both normalisers, and any other number of digits is
\* rejected by both normalisers.
C10_BothRejectWrongLength ==
    AcceptedForm(addrIn) =>
        /\ (addrDM # NoResult /\ Len(addrIn.digits) = AddrHexLen) => addrDM = Ok(Canonical(addrIn.digits))
        /\ (addrBT # NoResult /\ Len(addrIn.digits) = AddrHexLen) => addrBT = Ok(Canonical(addrIn.digits))
        /\ (addrDM # NoResult /\ Len(addrIn.digits) # AddrHexLen) => ~addrDM.ok
        /\ (addrBT # NoResult /\ Len(addrIn.digits) # AddrHexLen) => ~addrBT.ok

\* C10 amended: for an input in an accepted form, twelve hex digits give the
\* same canonical uppercase colon-separated address from both normalisers; with
\* any other number of digits DeviceManager._normalize_bt_address rejects, while
\* BluetoothController._normalize_bt_address rejects only the empty string and
\* otherwise returns the stripped, prefix-less input in upper case.
C10_NormalizeAddress ==
    AcceptedForm(addrIn) =>
        /\ (addrDM # NoResult /\ Len(addrIn.digits) = AddrHexLen) => addrDM = Ok(Canonical(addrIn.digits))
        /\ (addrBT # NoResult /\ Len(addrIn.digits) = AddrHexLen) => addrBT = Ok(Canonical(addrIn.digits))
        /\ (addrDM # NoResult /\ Len(addrIn.digits) # AddrHexLen) => ~addrDM.ok
        /\ (addrBT # NoResult /\ Len(addrIn.digits) # AddrHexLen) =>
               IF Raw(addrIn) = <<>> THEN ~addrBT.ok
               ELSE addrBT = Ok(Upper(SepJoin(addrIn.digits, 1, addrIn.sep)))

\* a dev_-prefixed, dash-separated, padded twelve-digit address went through both
C10_Witness ==
    /\ addrIn.prefix \in DevPrefixes /\ addrIn.sep = <<"-">> /\ addrIn.pad
    /\ Len(addrIn.digits) = AddrHexLen
    /\ addrDM # NoResult /\ addrBT # NoResult
    /\ addrDM.ok /\ addrBT = addrDM

(***************************************************************************)
(* C1                                                                      *)
(***************************************************************************)
\* the id the paired device gets, from the request alone
ExpectedDeviceId ==
    [payload \in Payloads |->
        IF "device_id" \in DOMAIN payload.opts THEN Strip(payload.opts["device_id"].v)
        ELSE S_blePrefix \o Lower(payload.addr.digits)]

JobFinished(j) ==
    LET job == get_pairing_job(j)
    IN  /\ job["finished_at"] # None
        /\ \/ /\ job["status"] = "success"
              /\ job["device_id"] = ExpectedDeviceId[task[j].payload]
              /\ job["device_id"] \in DOMAIN devices
           \/ /\ job["status"] = "failed"
              /\ job["error"] \notin {None, ""}

JobPolledInFlight(j) ==
    LET job == get_pairing_job(j)
    IN  /\ task[j].pc = "scheduled" => job["status"] = "pending"
        /\ task[j].pc # "done" => job["status"] \in {"pending", "in-progress"} /\ job["finished_at"] = None
        /\ task[j].pc = "done" => JobFinished(j)

\* C1: a started job is pending before its task has run; until the task ends
\* get_pairing_job shows pending or in-progress; every started job eventually
\* shows success with the paired device's id or failed with a non-empty error,
\* and finished_at is then set.
C1_JobLifecycle ==
    /\ [](\A j \in DOMAIN pairing_jobs : JobPolledInFlight(j))
    /\ \A j \in JobIds : (j \in DOMAIN pairing_jobs) ~> (j \in DOMAIN pairing_jobs /\ JobFinished(j))

\* one job ended in success and another in failure after its pairing step
C1_Witness ==
    \E j, k \in DOMAIN pairing_jobs :
        /\ pairing_jobs[j]["status"] = "success" /\ JobFinished(j)
        /\ pairing_jobs[k]["status"] = "failed" /\ task[k].called_pair /\ JobFinished(k)

(***************************************************************************)
(* C2                                                                      *)
(***************************************************************************)
JobStatuses == {"pending", "in-progress", "success", "failed"}

StatusRank(status) ==
    CASE status = "pending" -> 0
      [] status = "in-progress" -> 1
      [] status \in {"success", "failed"} -> 2
      [] OTHER -> -1

\* C2: a job's status is one of the four values, never moves to an earlier one,
\* and never changes once it is success or failed.
C2_StatusForward ==
    [][\A j \in DOMAIN pairing_jobs :
          /\ j \in DOMAIN pairing_jobs'
          /\ pairing_jobs'[j]["status"] \in JobStatuses
          /\ StatusRank(pairing_jobs'[j]["status"]) >= StatusRank(pairing_jobs[j]["status"])
          /\ pairing_jobs[j]["status"] \in {"success", "failed"}
                => pairing_jobs'[j]["status"] = pairing_jobs[j]["status"]]_vars

\* a job failed after having been seen in progress, while another is still pending
C2_Witness ==
    \E j, k \in DOMAIN pairing_jobs :
        /\ pairing_jobs[j]["status"] = "failed" /\ task[j].called_pair
        /\ pairing_jobs[k]["status"] = "pending"

(***************************************************************************)
(* C8                                                                      *)
(***************************************************************************)
\* C8: a pairing call that finds paired and trusted both true in the device's
\* metadata never calls bluetooth.pair_and_trust, goes straight to the
\* capability inspection, and leaves paired and trusted true.
C8_NoRepeatedPairing ==
    \A j \in DOMAIN task :
        task[j].was_paired =>
            /\ ~task[j].called_pair
            /\ task[j].pc \in {"inspect", "done"}
            /\ MFlag(dicts[devices[task[j].device_id].metadata], "paired")
            /\ MFlag(dicts[devices[task[j].device_id].metadata], "trusted")
            /\ pairing_jobs[j]["status"] = "success" =>
                  /\ persisted.devices[task[j].device_id].paired
                  /\ persisted.devices[task[j].device_id].trusted

\* a second pairing of a device that an earlier job had paired has succeeded
C8_Witness ==
    \E j \in DOMAIN task :
        /\ task[j].was_paired /\ task[j].pc = "done"
        /\ pairing_jobs[j]["status"] = "success"

(***************************************************************************)
(* C9                                                                      *)
(***************************************************************************)
\* a BLE specification that is complete, by its fields
ValidBleCommand(raw) ==
    /\ "id" \in DOMAIN raw /\ Strip(raw["id"].v) # <<>>
    /\ "transport" \in DOMAIN raw => Lower(raw["transport"].v) = S_ble
    /\ "characteristic" \in DOMAIN raw /\ Strip(raw["characteristic"].v) # <<>>
    /\ "payload_hex" \in DOMAIN raw =>
          Len(SelectSeq(raw["payload_hex"].v, LAMBDA c : c \notin {"x", " "})) % 2 = 0

C9_Request(payload) ==
    /\ AcceptedForm(payload.addr) /\ Len(payload.addr.digits) = AddrHexLen
    /\ \A i \in 1..Len(payload.commands) : ValidBleCommand(payload.commands[i])

C9_Stored(file, device_id, payload) ==
    /\ file.exists
    /\ device_id \in DOMAIN file.devices
    /\ file.devices[device_id].address = Canonical(payload.addr.digits)
    /\ MFlag(file.devices[device_id].metadata, "paired")
    /\ \A i \in 1..Len(payload.commands) :
          \E n \in 1..Len(file.devices[device_id].metadata["ble_commands"]) :
             file.devices[device_id].metadata["ble_commands"][n]["id"] = Strip(payload.commands[i]["id"].v)

\* C9: when a pairing call whose address is in an accepted form and whose
\* commands are all valid BLE specifications succeeds, the stored device has the
\* canonical form of that address, metadata.paired true, and a ble_commands
\* entry for each supplied command id.
C9_PairedDeviceStored ==
    [][\A j \in DOMAIN task :
          (/\ task[j].pc # "done" /\ task'[j].pc = "done"
           /\ pairing_jobs'[j]["status"] = "success"
           /\ C9_Request(task[j].payload))
          => C9_Stored(persisted', task[j].device_id, task[j].payload)]_vars

(***************************************************************************)
(* C3                                                                      *)
(***************************************************************************)
\* the call of client c is inside the lock of its ip
InExchange(c) == call[c].pc \in {"open", "connect", "handshake", "key", "ack", "close"}

\* the call ended without an exception and without an authorization error
Clean(r) == ~r.raised /\ r.error.t = "none"

MessageOf(entry) ==
    IF Get(entry, "data").t = "dict"
    THEN OrElse(Get(Get(entry, "data").v, "message"), Get(Get(entry, "data").v, "status_message"))
    ELSE VNone

\* the messages of drain n that contain 'unauthorized'
UnauthorizedTexts(n) ==
    { MessageOf(Drained[n].messages[i]) :
        i \in { j \in 1..Len(Drained[n].messages) : IsUnauthorized(MessageOf(Drained[n].messages[j])) } }

\* C4: a call whose handshake drain yielded an error message containing
\* 'unauthorized' sends no key frame, and the error of its result is that message
C4_UnauthorizedStops ==
    /\ \A c \in Clients :
           (InExchange(c) /\ call[c].handshake # 0 /\ UnauthorizedTexts(call[c].handshake) # {})
               => call[c].keys = 0
    /\ \A ip \in DOMAIN last :
           (last[ip].handshake # 0 /\ UnauthorizedTexts(last[ip].handshake) # {})
               => last[ip].error \in UnauthorizedTexts(last[ip].handshake)

(***************************************************************************)
(* C5                                                                      *)
(***************************************************************************)
ExceptionTexts == {S_timed_out, S_closed}

\* C5: a call in which an exception occurred has returned a result whose error is
\* the text of the exception; while no later call of the ip is inside the lock,
\* neither a socket nor a connected flag is cached for the ip; the next call of
\* the ip opens a websocket and sends one connect frame on it
C5_ExceptionHandled ==
    \A ip \in DOMAIN last :
        last[ip].raised =>
            /\ last[ip].error.t = "str"
            /\ last[ip].error.v \in ExceptionTexts
            /\ (\A c \in Clients : ~(InExchange(c) /\ call[c].ip = ip))
                   => (ip \notin DOMAIN sockets /\ ip \notin DOMAIN socket_connected)
            /\ \A c \in Clients :
                   (InExchange(c) /\ call[c].ip = ip)
                       => /\ call[c].opened
                          /\ call[c].pc \in {"handshake", "key", "ack"} => call[c].connects = 1

C5_Witness ==
    \E c \in Clients :
        /\ call[c].pc = "handshake"
        /\ call[c].ip \in DOMAIN last
        /\ last[call[c].ip].raised
        /\ call[c].opened
        /\ call[c].connects = 1
        /\ call[c].websocket # last[call[c].ip].websocket

(***************************************************************************)
(* C6                                                                      *)
(***************************************************************************)
\* the metadata of a device of the registry
DeviceMetadata(devs, heap, device_id) == heap[devs[device_id].metadata]

\* client c starts a command in this step
Started(c) == call[c].pc = "idle" /\ call'[c].pc # "idle"

\* the exchange of client c ends in this step
Ended(c) == call[c].pc # "idle" /\ call'[c].pc = "idle"

\* the token of a command, of the stored metadata or of the legacy key, blanks removed
FirstToken(own, md) ==
    IF Truthy(own) THEN Strip(own.v)
    ELSE IF Truthy(GetStr(md, "samsung_token")) THEN Strip(md["samsung_token"])
    ELSE IF Truthy(GetStr(md, "smartview_token")) THEN Strip(md["smartview_token"])
    ELSE <<>>

C7_OneExchangePerIp ==
    \A c1 \in Clients :
        InExchange(c1) =>
            /\ call[c1].ip \in DOMAIN locks
            /\ locks[call[c1].ip]
            /\ \A c2 \in Clients \ {c1} : ~(InExchange(c2) /\ call[c2].ip = call[c1].ip)

C7_Witness ==
    \E c1, c2 \in Clients :
        /\ call[c1].pc = "handshake"
        /\ call[c2].pc = "lock"
        /\ call[c2].ip = call[c1].ip

(***************************************************************************)
(* C11                                                                     *)
(***************************************************************************)
\* the transport of a raw specification, as line 864 reads it
TransportOf(raw) == SpecHead(raw).transport

\* the number of hex digits of a payload, its "0x" markers set aside
HexDigitCount(raw) ==
    IF "payload_hex" \in DOMAIN raw
    THEN Len(SelectSeq(Remove0x(Str(raw["payload_hex"])), IsHex))
    ELSE 0

\* repeat is an integer that is not positive
RepeatNotPositive(raw) ==
    /\ "repeat" \in DOMAIN raw
    /\ IntOf(raw["repeat"]).ok
    /\ IntOf(raw["repeat"]).value <= 0

\* the specification lacks the field its transport requires, has a hex payload with
\* an odd number of hex digits, or is a samsung specification with repeat <= 0
MustBeRejected(raw) ==
    \/ TransportOf(raw) = S_ble /\ "characteristic" \notin DOMAIN raw
    \/ TransportOf(raw) = S_rfcomm
           /\ DOMAIN raw \cap {"rfcomm_channel", "service_uuid", "service_name"} = {}
    \/ TransportOf(raw) = S_samsung
           /\ DOMAIN raw \cap {"key", "key_code", "data_of_cmd", "data"} = {}
    \/ HexDigitCount(raw) % 2 = 1
    \/ TransportOf(raw) = S_samsung /\ RepeatNotPositive(raw)

\* C11 as stated: a samsung specification without the field "key" is rejected, as is
\* a ble specification without characteristic, an rfcomm specification without
\* rfcomm_channel, service_uuid and service_name, a specification whose hex payload
\* has an odd number of hex digits, and a samsung specification with repeat <= 0
C11_RejectsWithoutKey ==
    (/\ normalizedSpec # NoResult
     /\ \/ MustBeRejected(RawSpec(specIn))
        \/ TransportOf(RawSpec(specIn)) = S_samsung /\ "key" \notin DOMAIN RawSpec(specIn))
        => ~normalizedSpec.ok

\* C11: _normalize_command_spec rejects every specification that lacks the field
\* its transport requires (characteristic for ble; rfcomm_channel, service_uuid and
\* service_name all absent for rfcomm; the key, under any of the names the code
\* reads, for samsung), every specification whose hex payload has an odd number of
\* hex digits, and every samsung specification with repeat <= 0
C11_RejectsInvalid ==
    (normalizedSpec # NoResult /\ MustBeRejected(RawSpec(specIn))) => ~normalizedSpec.ok

\* an odd hex payload in a specification that is complete otherwise
C11_Witness ==
    /\ normalizedSpec # NoResult
    /\ ~normalizedSpec.ok
    /\ normalizedSpec.error = "Hex payload must have an even number of characters"
    /\ TransportOf(RawSpec(specIn)) = S_ble
    /\ "characteristic" \in DOMAIN RawSpec(specIn)
    /\ HexDigitCount(RawSpec(specIn)) % 2 = 1

(***************************************************************************)
(* C19                                                                     *)
(***************************************************************************)
\* the step in which the command of client c returns to its caller
Returns(c) == call[c].pc \notin {"idle"} /\ call'[c].pc = "idle"

\* the step changes what to_dict gives for some device
MemoryChanges == PersistDevices(devices', dicts') # PersistDevices(devices, dicts)

\* C19: whenever execute_inline_command returns after changing a device in memory,
\* the file written last holds the registry as it is in memory
C19_PersistedOnReturn ==
    [][\A c \in Clients :
           Returns(c) /\ MemoryChanges => persisted' = PersistDevices(devices', dicts')]_vars

(***************************************************************************)
(* C14                                                                     *)
(***************************************************************************)
\* the identifier of the call as it is compared: stripped, in lower case
AskedIdent == Lower(Strip(Identifiers[resolveIn.identifier]))

\* a record's name or provider contains the identifier, or one of its class-id
\* labels or uuids, or one of its listed uuids, equals it
Answers(record, ident) ==
    \/ Contains(ServiceText(record, "name"), ident)
    \/ Contains(ServiceText(record, "provider"), ident)
    \/ \E i \in 1..Len(ServiceList(record, "class_ids")) :
           \/ ident = ServiceText(ServiceList(record, "class_ids")[i], "label")
           \/ ident = ServiceText(ServiceList(record, "class_ids")[i], "uuid")
    \/ \E i \in 1..Len(ServiceList(record, "uuids")) :
           ident = Lower(Strip(ServiceList(record, "uuids")[i].v))

HasChannel(record) == "rfcomm_channel" \in DOMAIN record

\* the positions of the records that answer to the identifier
Answering(records, ident) == {i \in 1..Len(records) : Answers(records[i], ident)}

\* the positions of the records with a channel that answer to the identifier
AnsweringWithChannel(records, ident) ==
    {i \in 1..Len(records) : HasChannel(records[i]) /\ Answers(records[i], ident)}

Least(positions) == CHOOSE i \in positions : \A k \in positions : i <= k

\* the rfcomm_channel of the first record among positions, None if there is no
\* such record or it has no channel
ChannelAt(records, positions) ==
    IF positions = {} THEN VNone ELSE Get(records[Least(positions)], "rfcomm_channel")

\* the result the map gives, else the one the records at positions give
MapOrRecord(channels, records, ident, positions) ==
    IF ident \in DOMAIN channels THEN channels[ident] ELSE ChannelAt(records, positions)

\* C14 as stated: for an identifier that is not blank the result is the channel the
\* capabilities map holds for it, compared without case; otherwise the channel of the
\* first service record, in list order, that answers to the identifier; None if
\* there is no such record
C14_FirstRecord ==
    (resolved # NoResult /\ AskedIdent # <<>>) =>
        resolved = Ok(MapOrRecord(ChannelMaps[resolveIn.channels], ServicesOf(resolveIn), AskedIdent,
                                  Answering(ServicesOf(resolveIn), AskedIdent)))

\* C14: _resolve_rfcomm_channel returns, without raising, None for a blank
\* identifier; else the channel the capabilities map holds for the identifier,
\* compared without case; else the channel of the first service record, in list
\* order, that has an RFCOMM channel and whose name or provider contains the
\* identifier or whose class-id label or uuid or listed uuid equals it; None if
\* there is no such record
C14_FirstRecordWithChannel ==
    resolved # NoResult =>
        resolved = Ok(IF AskedIdent = <<>> THEN VNone
                      ELSE MapOrRecord(ChannelMaps[resolveIn.channels], ServicesOf(resolveIn), AskedIdent,
                                       AnsweringWithChannel(ServicesOf(resolveIn), AskedIdent)))

\* "avrcp" is no key of the map {"0000110b": 3}; the record "AVRCP Controller" has no
\* channel and "AVRCP Target", after it in the list, has channel 5
C14_Witness ==
    /\ resolved = Ok(VInt(5))
    /\ AskedIdent = <<"a", "v", "r", "c", "p">>
    /\ ChannelMaps[resolveIn.channels] = Put(EmptyDict, U_110b, VInt(3))
    /\ resolveIn.services = <<2, 1>>

(***************************************************************************)
(* C20                                                                     *)
(***************************************************************************)
\* C20: when the read loop of send_command ends, because response_bytes bytes have
\* arrived, because the socket gave no data, or because the response timeout
\* elapsed, the call returns the bytes read so far and does not raise
C20_LoopEndReturns ==
    rfcommCall.pc \in {"returned", "raised"} /\ rfcommCall.ended \in {"complete", "no data", "timed out"}
        => rfcommCall.pc = "returned" /\ rfcommCall.result = rfcommCall.chunks

(***************************************************************************)
(* C12  In every reachable state every entry of a device's stored command  *)
(* tables (ble_commands, classic_commands, network_commands,               *)
(* samsung_commands) is a specification that _normalize_command_spec       *)
(* accepts.                                                                *)
(***************************************************************************)
StoredTable(device_id, table) == MGet(dicts[devices[device_id].metadata], table, <<>>)

C12_StoredCommandsAccepted ==
    \A device_id \in DOMAIN devices :
        \A t \in 1..Len(CommandTables) :
            \A i \in 1..Len(StoredTable(device_id, CommandTables[t])) :
                normalize_command_spec(StoredTable(device_id, CommandTables[t])[i]).ok

(***************************************************************************)
(* C13  send_command on a stored command whose transport is not ble,       *)
(* rfcomm or samsung is rejected with an error and performs no transport   *)
(* I/O: the command is never handed to the handler of another transport.   *)
(***************************************************************************)
\* the entries of the four tables in the order _command_map reads them
AllStored(md) ==
    MGet(md, CommandTables[1], <<>>) \o MGet(md, CommandTables[2], <<>>)
        \o MGet(md, CommandTables[3], <<>>) \o MGet(md, CommandTables[4], <<>>)

StoredUnder(md, command_id) ==
    {i \in 1..Len(AllStored(md)) : RawStr(AllStored(md)[i], "id", <<>>) = command_id}

\* the entry that _command_map finds under command_id, as it is stored
StoredAs(md, command_id) ==
    AllStored(md)[CHOOSE i \in StoredUnder(md, command_id) :
                      \A k \in StoredUnder(md, command_id) : k <= i]

\* the last operation was send_command on a stored command of another transport
SentUnknownTransport ==
    /\ done.op = "send_command"
    /\ done.device \in DOMAIN devices
    /\ StoredUnder(dicts[devices[done.device].metadata], done.command) # {}
    /\ EntryTransport(StoredAs(dicts[devices[done.device].metadata], done.command))
           \notin {S_ble, S_rfcomm, S_samsung}

C13_UnknownTransportRejected ==
    SentUnknownTransport => done.raised /\ done.io = "none"

(***************************************************************************)
(* C15  A registry written by _persist_devices and read by _load_devices   *)
(* comes back with the same device ids and the same field values, and the  *)
(* paired and trusted flags of to_dict are those its metadata gives.       *)
(***************************************************************************)
DeviceFields ==
    {"id", "name", "type", "room", "protocols", "integrations", "status", "last_seen",
     "firmware", "capabilities"}

\* the file is one that _persist_devices writes: every entry is a to_dict payload
WrittenByPersist(file) ==
    /\ file.exists /\ file.json /\ file.list
    /\ file.version = STATE_VERSION
    /\ file.anonymous = 0
    /\ \A id \in DOMAIN file.devices :
           /\ DeviceFields \cup {"metadata", "paired", "trusted"} \subseteq DOMAIN file.devices[id]
           /\ file.devices[id]["id"] = id

\* the device in memory has the values of the entry that was written
SameValues(device, md, entry) ==
    /\ \A f \in DeviceFields : device[f] = entry[f]
    /\ IF "address" \in DOMAIN entry
       THEN device.address = entry["address"]
       ELSE device.address = NoAddress
    /\ md = entry["metadata"]

C15_LoadAfterPersist ==
    done.op = "load" /\ WrittenByPersist(done.file) =>
        /\ DOMAIN devices = DOMAIN done.file.devices
        /\ \A id \in DOMAIN devices :
               /\ SameValues(devices[id], dicts[devices[id].metadata], done.file.devices[id])
               /\ ToDict(devices[id], dicts)["paired"] = MFlag(done.file.devices[id]["metadata"], "paired")
               /\ ToDict(devices[id], dicts)["trusted"] = MFlag(done.file.devices[id]["metadata"], "trusted")
               /\ ToDict(devices[id], dicts) = done.file.devices[id]

\* the hub starts again on a file that an operation wrote: the television was paired
C15_Witness ==
    /\ done.op = "load"
    /\ done.ops > 0
    /\ WrittenByPersist(done.file)
    /\ S_tv \in DOMAIN devices
    /\ devices[S_tv].status = "online"
    /\ MFlag(dicts[devices[S_tv].metadata], "paired")
    /\ "samsung" \in devices[S_tv].protocols

(***************************************************************************)
(* C16  _load_devices never raises, and a store that is missing, is not    *)
(* JSON, has another version, has no list of devices or holds an entry     *)
(* without an id leaves exactly the seed registry: nothing, or the one     *)
(* preconfigured display when a default address is configured.             *)
(***************************************************************************)
Unusable(file) ==
    \/ ~file.exists
    \/ ~file.json
    \/ file.version # STATE_VERSION
    \/ ~file.list
    \/ file.anonymous > 0

SeedSet(env) ==
    IF env.address = <<>> THEN {} ELSE {S_seed_id}

MutatingOperations ==
    {"send_command", "connect_device", "scan", "update_device_metadata",
     "pair_samsung_device", "homekit_refresh"}

C17_StatusAfterOperation ==
    /\ done.op \in MutatingOperations
    /\ ~done.raised
    /\ done.device \in DOMAIN devices
    => devices[done.device].status \in {"online", "offline"}

(***************************************************************************)
(* C18  Across every operation the set of protocol tags of a device only   *)
(* grows: a tag the device has before a step is still there after it.      *)
(***************************************************************************)
ProtocolsKept ==
    \A device_id \in DOMAIN devices \cap DOMAIN devices' :
        devices[device_id].protocols \subseteq devices'[device_id].protocols

C18_ProtocolsOnlyGrow == [][ProtocolsKept]_vars

(***************************************************************************)
(* C21  A command performs transport I/O on a device only if the metadata  *)
(* of that device has paired true: a command for a device that is not      *)
(* paired is not accepted.                                                 *)
(***************************************************************************)
C21_IoOnlyWhenPaired ==
    /\ done.op = "send_command"
    /\ done.device \in DOMAIN devices
    /\ done.io # "none"
    => MFlag(dicts[devices[done.device].metadata], "paired")

(***************************************************************************)
(* C25  If capability inspection fails in any way after pair and trust     *)
(* succeeded - the tool is missing, times out, prints nothing, or running  *)
(* it raises anything else - pair_bluetooth_device still succeeds, the     *)
(* device is persisted as paired and trusted and its capabilities are left *)
(* as they were.                                                           *)
(***************************************************************************)
InspectionFails(j) ==
    /\ j \in DOMAIN task /\ task[j].pc = "inspect"
    /\ task'[j].pc = "done"
    /\ task'[j].inspection \in {"empty", "raised"}

PairingCompletes(j) ==
    LET device_id == task[j].device_id
    IN  /\ pairing_jobs'[j].status = "success"
        /\ persisted'.exists
        /\ device_id \in DOMAIN persisted'.devices
        /\ persisted'.devices[device_id]["paired"]
        /\ persisted'.devices[device_id]["trusted"]
        /\ devices'[device_id].capabilities = devices[device_id].capabilities

C25_InspectionFailureKeepsPairing ==
    [][\A j \in JobIds : InspectionFails(j) => PairingCompletes(j)]_vars

(***************************************************************************)
(* C26  pair_bluetooth_device with a command list that has invalid entries *)
(***************************************************************************)
IsValidEntry(raw) == normalize_command_spec(raw).ok

\* the command list of the request without its invalid entries
ValidEntries(commands) == SelectSeq(commands, IsValidEntry)

HasInvalidEntries(payload) == ValidEntries(payload.commands) # payload.commands

\* the messages with which _normalize_command_spec rejects the entries of a list
ValidationErrors(commands) ==
    {normalize_command_spec(commands[i]).error :
        i \in {k \in 1..Len(commands) : ~IsValidEntry(commands[k])}}

\* the table pair_bluetooth_device leaves under key when the request carries the
\* entries wanted for that key: the entries, or what was there when there are none
TableAfterPairing(md, key, wanted) == IF wanted # <<>> THEN wanted ELSE MGet(md, key, <<>>)

\* job j completes pair_bluetooth_device in this step
PairingStores(j) ==
    /\ j \in DOMAIN task /\ task[j].pc = "inspect"
    /\ task'[j].pc = "done"
    /\ task'[j].inspection # "raised"

\* the tables of the device after the step are those of the request without its
\* invalid entries, rfcomm entries under classic_commands and the rest under
\* ble_commands, and each valid entry has its id in the table of that id's transport
StoredAsIfValidOnly(j) ==
    LET before   == dicts[task[j].metadata]
        after    == dicts'[devices'[task[j].device_id].metadata]
        valid    == ValidEntries(task[j].payload.commands)
        wanted   == normalize_command_list(valid)
        ble      == SelectSeq(wanted, LAMBDA cmd : ~IsRfcomm(cmd))
        classic  == SelectSeq(wanted, IsRfcomm)
        ids(seq) == {seq[i]["id"] : i \in 1..Len(seq)}
    IN  /\ pairing_jobs'[j].status = "success"
        /\ MGet(after, "ble_commands", <<>>) = TableAfterPairing(before, "ble_commands", ble)
        /\ MGet(after, "classic_commands", <<>>) = TableAfterPairing(before, "classic_commands", classic)
        /\ \A i \in 1..Len(valid) :
              normalize_command_spec(valid[i]).value["id"]
                  \in ids(MGet(after, "ble_commands", <<>>)) \cup ids(MGet(after, "classic_commands", <<>>))

ValidUnder(md, command_id) ==
    {i \in StoredUnder(md, command_id) : normalize_command_spec(AllStored(md)[i]).ok}

LastValidUnder(md, command_id) ==
    AllStored(md)[CHOOSE i \in ValidUnder(md, command_id) :
                      \A k \in ValidUnder(md, command_id) : k <= i]

\* the entries of a normalised list under command_id
ListedUnder(list, command_id) == {i \in 1..Len(list) : list[i]["id"] = command_id}

\* several stored specifications of the device share command_id, one of them valid
SharedId(md, command_id) ==
    /\ Cardinality(StoredUnder(md, command_id)) > 1
    /\ ValidUnder(md, command_id) # {}

\* C27: when several specifications share an id, the table _normalize_command_list
\* builds from one list and the table _command_map builds from ble_commands,
\* classic_commands, network_commands and samsung_commands in that order hold one
\* entry for the id, the last valid specification with that id.
C27_LastValidWins ==
    \A device_id \in DOMAIN devices :
        LET md == dicts[devices[device_id].metadata]
        IN  \A command_id \in CommandIds :
                SharedId(md, command_id) =>
                    /\ Cardinality(ListedUnder(normalize_command_list(AllStored(md)), command_id)) = 1
                    /\ \A i \in ListedUnder(normalize_command_list(AllStored(md)), command_id) :
                          normalize_command_list(AllStored(md))[i]
                              = normalize_command_spec(LastValidUnder(md, command_id)).value
                    /\ command_id \in DOMAIN command_map(md)
                    /\ command_map(md)[command_id] = IngestEntry(LastValidUnder(md, command_id))

(***************************************************************************)
(* C22  validation before transport I/O                                    *)
(***************************************************************************)
\* send_command ended on a stored command that _normalize_command_spec rejects
SentBadCommand ==
    /\ done.op = "send_command"
    /\ done.device \in DOMAIN devices
    /\ StoredUnder(dicts[devices[done.device].metadata], done.command) # {}
    /\ ~normalize_command_spec(StoredAs(dicts[devices[done.device].metadata], done.command)).ok

\* send_command ended on a device or a command the hub does not know
SentUnknown ==
    /\ done.op = "send_command"
    /\ \/ done.device \notin DOMAIN devices
       \/ /\ done.device \in DOMAIN devices
          /\ done.command \notin DOMAIN command_map(dicts[devices[done.device].metadata])

\* C22: a command with a bad or missing field, an unknown device and an unknown
\* command are raised before the first transport call: send_command on any of
\* them raises and has performed no transport I/O.
C22_ValidationBeforeIo ==
    (SentBadCommand \/ SentUnknown) => (done.raised /\ done.io = "none")

(***************************************************************************)
(* C28  which devices take samsung commands                                *)
(***************************************************************************)
\* execute_inline_command is called in this step
InlineCalled == issued' # issued

\* the call went on to _perform_samsung_command
InlineAccepted == \E c \in Clients : call'[c] # call[c]

\* C28: a samsung command is accepted for a device exactly when the device has a
\* 'samsung' or 'smartview' tag or a session metadata field, by the rule of
\* send_command also when it comes through execute_inline_command, and a device
\* with neither is rejected without being contacted.
C28_SamsungAcceptance ==
    [][InlineCalled =>
          /\ InlineAccepted <=> SamsungAssociated(devices[S_tv], dicts[devices[S_tv].metadata])
          /\ ~InlineAccepted => websockets' = websockets]_vars

(***************************************************************************)
(* C29  metadata.last_command after a command                              *)
(***************************************************************************)
\* an inline command of the television has been executed and has returned
InlineReturned == \E ip \in DOMAIN last : ~last[ip].raised

\* C29: after a successful execute_inline_command the device's metadata.last_command
\* holds the id and the transport of the command, and the file holds that entry.
C29_LastCommandRecorded ==
    InlineReturned =>
        /\ "last_command" \in DOMAIN dicts[devices[S_tv].metadata]
        /\ dicts[devices[S_tv].metadata]["last_command"].id = S_inline
        /\ dicts[devices[S_tv].metadata]["last_command"].transport = S_samsung
        /\ "last_command" \in DOMAIN persisted.devices[S_tv]["metadata"]

(***************************************************************************)
(* C30  the channel of an rfcomm command                                   *)
(***************************************************************************)
\* str(command.get(k) or "").strip() of the command handed over
CommandText(k) == Strip(Str(OrElse(Get(PerformCommands[performIn.command], k), VStr(<<>>))))

ExplicitChannel == Get(PerformCommands[performIn.command], "rfcomm_channel")

ExplicitInRange ==
    /\ ExplicitChannel.t # "none"
    /\ IntOf(ExplicitChannel).ok
    /\ IntOf(ExplicitChannel).value \in 1..RfcommChannelMax

\* the service reference of the command: its uuid, or its name when it has no uuid
ServiceReference ==
    IF CommandText("service_uuid") # <<>> THEN CommandText("service_uuid")
    ELSE CommandText("service_name")

ReferenceResolves ==
    /\ ServiceReference # <<>>
    /\ resolve_rfcomm_channel(CapabilitiesOf(performIn), ServiceReference).t # "none"

\* the handler has settled on channel n and every socket of the call is on n
SentOn(n) ==
    /\ performed.ok
    /\ performed.value = n
    /\ rfcommCall.pc # "none" => rfcommCall.channel = n

\* C30: an rfcomm command with an explicit channel from 1 to 30 is sent on that
\* channel; without an explicit channel it is sent on the channel its service
\* uuid resolves to, or its service name when it has no uuid; when nothing
\* resolves it fails with the channel-missing error and no socket is opened.
C30_ChannelChoice ==
    performed # NoResult =>
        /\ ExplicitInRange => SentOn(IntOf(ExplicitChannel).value)
        /\ (ExplicitChannel.t = "none" /\ ReferenceResolves) =>
               SentOn(IntOf(resolve_rfcomm_channel(CapabilitiesOf(performIn), ServiceReference)).value)
        /\ (ExplicitChannel.t = "none" /\ ~ReferenceResolves) =>
               /\ ~performed.ok
               /\ performed.error = S_channel_missing
               /\ rfcommCall.pc = "none"

\* a command without uuid has been sent on the channel of its service name, and a
\* socket has carried it
C30_Witness ==
    /\ performed # NoResult
    /\ ExplicitChannel.t = "none"
    /\ CommandText("service_uuid") = <<>>
    /\ ReferenceResolves
    /\ rfcommCall.pc = "returned"
    /\ rfcommCall.channel = 1

(***************************************************************************)
(* C23  the order of pair_and_trust                                        *)
(***************************************************************************)
\* the process of a run was started with word among its arguments
Issues(run, word) == \E n \in 1..Len(run.argv) : run.argv[n] = word

\* the runs of a call issue scan, pair and trust in this order
IssuedInOrder(runs) ==
    \E i, j, l \in 1..Len(runs) :
        /\ i < j /\ j < l
        /\ Issues(runs[i], "scan") /\ Issues(runs[j], "pair") /\ Issues(runs[l], "trust")

\* C23: when the direct connection succeeds pair_and_trust registers no agent and
\* runs no process; otherwise a call that returns has ensured the agent and then
\* issued scan, pair and trust in this order, and a pair or trust that exits
\* non-zero without the 'already' text makes the call fail.
C23_PairAndTrustOrder ==
    \A c \in DOMAIN pairCall :
        /\ (pairCall[c].pc = "returned" /\ pairCall[c].direct) =>
               (pairCall[c].runs = <<>> /\ ~pairCall[c].ensured)
        /\ (pairCall[c].pc = "returned" /\ ~pairCall[c].direct) =>
               (pairCall[c].ensured /\ IssuedInOrder(pairCall[c].runs))
        /\ \A i \in 1..Len(pairCall[c].runs) :
               \/ /\ Issues(pairCall[c].runs[i], "pair")
                  /\ pairCall[c].runs[i].returncode # 0
                  /\ ~is_already_paired(pairCall[c].runs[i].output)
               \/ /\ Issues(pairCall[c].runs[i], "trust")
                  /\ pairCall[c].runs[i].returncode # 0
                  /\ ~is_already_trusted(pairCall[c].runs[i].output)
               => pairCall[c].pc = "raised"

(***************************************************************************)
(* C24  the ready flag of the agent                                        *)
(***************************************************************************)
\* C24: across all calls of _ensure_agent the ready flag is true only after a
\* registration has succeeded, and once it is true no registration is attempted.
C24_ReadyAfterRegistration ==
    [][/\ bluez'.ready => bluez'.registered > 0
       /\ bluez.ready => bluez'.attempts = bluez.attempts]_vars

(***************************************************************************)
(* C31  concurrent operations on different devices and the device file     *)
(***************************************************************************)
JobDevice(j) == task[j].device_id

Succeeded(j) == pairing_jobs[j].status = "success"

\* no other job has worked on the device of job j
OnlyJobOn(j) == \A k \in DOMAIN task \ {j} : JobDevice(k) # JobDevice(j)

\* the device file holds what job j completed: its device as paired and trusted,
\* and, when no other job touched that device, the name, room, type, address
\* and command tables of the request
CompletedChangesStored(j) ==
    LET args  == PairRequest[task[j].payload]
        entry == persisted.devices[JobDevice(j)]
    IN  /\ persisted.exists
        /\ JobDevice(j) \in DOMAIN persisted.devices
        /\ entry["paired"] /\ entry["trusted"]
        /\ MFlag(entry["metadata"], "paired") /\ MFlag(entry["metadata"], "trusted")
        /\ OnlyJobOn(j) =>
              /\ entry["name"] = args.name
              /\ entry["room"] = args.room
              /\ entry["type"] = args.device_type
              /\ entry["address"] = args.address.value
              /\ MGet(entry["metadata"], "ble_commands", <<>>)
                    = SelectSeq(args.normalized, LAMBDA cmd : ~IsRfcomm(cmd))
              /\ MGet(entry["metadata"], "classic_commands", <<>>)
                    = SelectSeq(args.normalized, IsRfcomm)

\* C31: when two pairing jobs on different devices have both completed, however
\* their steps were interleaved, the device file holds the completed changes of
\* both: no persist issued for one device loses or reverts what the job on the
\* other device completed.
C31_NoLostUpdate ==
    \A j, k \in DOMAIN task :
        (j # k /\ Succeeded(j) /\ Succeeded(k) /\ JobDevice(j) # JobDevice(k))
            => CompletedChangesStored(j) /\ CompletedChangesStored(k)

\* two jobs on different devices have both completed, one of them with commands
\* of both tables
C31_Witness ==
    \E j, k \in DOMAIN task :
        /\ Succeeded(j) /\ Succeeded(k) /\ JobDevice(j) # JobDevice(k)
        /\ task[j].pc = "done" /\ task[k].pc = "done"
        /\ Len(MGet(persisted.devices[JobDevice(j)]["metadata"], "classic_commands", <<>>)) = 1
        /\ Len(MGet(persisted.devices[JobDevice(k)]["metadata"], "ble_commands", <<>>)) = 1

(***************************************************************************)
(* C32  a pairing that fails at the pair and trust step                    *)
(***************************************************************************)
\* job j called bluetooth.pair_and_trust and ended in the except branch
FailedAtPairing(j) ==
    /\ task[j].pc = "done"
    /\ task[j].called_pair
    /\ pairing_jobs[j].status = "failed"

\* C32: when pair_bluetooth_device fails at the pair and trust step the registry
\* is as it was before the call: a device that was unknown before the call (the
\* registry starts empty and no other job names it) has no entry in memory and
\* none in the device file that a later persist of another operation writes.
C32_FailedPairingLeavesRegistry ==
    \A j \in DOMAIN task :
        (FailedAtPairing(j) /\ OnlyJobOn(j))
            => /\ JobDevice(j) \notin DOMAIN devices
               /\ JobDevice(j) \notin DOMAIN persisted.devices

(***************************************************************************)
(* C33  metadata written while a job is suspended                          *)
(***************************************************************************)
\* the latest update_device_metadata was served while job j was suspended on its
\* device, and job j has completed since
WrittenWhileSuspended(j) ==
    /\ done.op = "update_device_metadata" /\ ~done.raised
    /\ j \in done.suspended
    /\ task[j].pc = "done"

\* C33: a metadata key that update_device_metadata wrote on a device while a
\* pairing job for that device was suspended at an await is present with the
\* written value once the job has completed, also when the metadata of the
\* device was empty when the job started.
C33_WrittenKeySurvives ==
    \A j \in DOMAIN task :
        WrittenWhileSuspended(j) =>
            \A key \in DOMAIN done.written :
                /\ key \in DOMAIN dicts[devices[done.device].metadata]
                /\ dicts[devices[done.device].metadata][key] = done.written[key]

(***************************************************************************)
(* C34  a token removed while another command holds it                     *)
(***************************************************************************)
\* client c passes a token that it read from samsung_token when it started, and
\* the metadata holds no samsung_token any more: the exchange of another command
\* reported 'unauthorized' in between and the token was removed
ReadRemovedToken(c) ==
    /\ call[c].own.t = "none"
    /\ Truthy(call[c].token)
    /\ "samsung_token" \notin DOMAIN dicts[call[c].metadata]
    /\ "smartview_token" \notin DOMAIN dicts[call[c].metadata]
    /\ Seen(call[c].device).state = "cleared"

\* C34: with two Samsung commands running side by side on one device, a stored
\* token that one of them removed after an 'unauthorized' error is not written
\* back when the other command, which had read the token before the removal,
\* ends: unless its own exchange yields a token, the device has no samsung_token.
C34_RemovedTokenStaysAbsent ==
    [][\A c \in Clients :
          (Ended(c) /\ ReadRemovedToken(c) /\ ~Truthy(last'[call[c].ip].token))
              => "samsung_token" \notin DOMAIN DeviceMetadata(devices', dicts', call[c].device)]_vars

(***************************************************************************)
(* C35  the recorded power state after a power command                     *)
(***************************************************************************)
\* the power command of client c ends in this step with an error in its result
PowerCommandFailed(c) ==
    /\ Ended(c)
    /\ Lower(call[c].command_id) \in PowerIds
    /\ Truthy(last'[call[c].ip].error)

\* status and metadata.is_on of the device are what they were
PowerStateKept(device_id) ==
    LET before == DeviceMetadata(devices, dicts, device_id)
        after  == DeviceMetadata(devices', dicts', device_id)
    IN  /\ devices'[device_id].status = devices[device_id].status
        /\ ("is_on" \in DOMAIN after) = ("is_on" \in DOMAIN before)
        /\ "is_on" \in DOMAIN before => after["is_on"] = before["is_on"]

\* C35: send_command with power_on, power_off or power_toggle changes the status
\* and metadata.is_on of the device only when the command was delivered without
\* error: when the Samsung exchange ends with an error in its result, the
\* recorded power state is left as it was.
C35_PowerOnlyWhenDelivered ==
    [][\A c \in Clients : PowerCommandFailed(c) => PowerStateKept(call[c].device)]_vars

(***************************************************************************)
(* C36  the connected flag and the cached websocket                        *)
(***************************************************************************)
\* no send_key call is inside the lock of ip
BetweenCalls(ip) == ~LockHeld(ip)

FlagTrue(ip) == ip \in DOMAIN socket_connected /\ socket_connected[ip]

\* a websocket is opened for the ip of client c in this step
OpensSocket(c) == call[c].pc = "open" /\ Len(websockets') = Len(websockets) + 1

\* C36 as amended: between send_key calls the connected flag of an ip is true
\* only if a websocket is cached for the ip; a cached websocket whose flag is
\* true has had one ms.channel.connect frame for the handshake that set the flag
\* and one more for each earlier handshake on it that was answered
\* 'unauthorized' (exactly one when there was none); a websocket that is opened
\* starts with the flag false.
C36_FlagMatchesHandshake ==
    /\ [](\A ip \in DOMAIN locks :
              (BetweenCalls(ip) /\ FlagTrue(ip))
                  => /\ ip \in DOMAIN sockets
                     /\ websockets[sockets[ip]].connects
                            = websockets[sockets[ip]].refused + 1)
    /\ [][\A c \in Clients :
              OpensSocket(c) => /\ sockets'[call[c].ip] = Len(websockets')
                                /\ socket_connected'[call[c].ip] = FALSE]_vars

\* a call has ended with the flag of its ip true on a cached websocket that took
\* two connect frames, the first answered 'unauthorized'
C36_Witness ==
    \E ip \in DOMAIN sockets :
        /\ BetweenCalls(ip) /\ FlagTrue(ip)
        /\ websockets[sockets[ip]].connects = 2
        /\ websockets[sockets[ip]].refused = 1

\* C36 as stated: between send_key calls the connected flag of an ip is true only
\* if a websocket is cached for the ip, and a cached websocket whose flag is true
\* has had exactly one ms.channel.connect frame sent on it; a websocket that is
\* opened starts with the flag false.
C36_FlagMatchesSocket ==
    /\ [](\A ip \in DOMAIN locks :
              (BetweenCalls(ip) /\ FlagTrue(ip))
                  => /\ ip \in DOMAIN sockets
                     /\ websockets[sockets[ip]].connects = 1)
    /\ [][\A c \in Clients :
              OpensSocket(c) => /\ sockets'[call[c].ip] = Len(websockets')
                                /\ socket_connected'[call[c].ip] = FALSE]_vars

(***************************************************************************)
(* C37  the fields of a job record agree with its status                   *)
(***************************************************************************)
JobRecordCoherent(job) ==
    /\ (job["finished_at"] # None) <=> (job["status"] \in {"success", "failed"})
    /\ job["device_id"] # NoDeviceId => job["status"] = "success"
    /\ job["error"] # None => job["status"] = "failed"

\* C37: in every state another task can observe, every pairing job record has
\* finished_at set if and only if its status is success or failed, a device_id
\* only if its status is success, and an error only if its status is failed.
C37_JobRecordCoherent ==
    \A j \in DOMAIN pairing_jobs : JobRecordCoherent(get_pairing_job(j))

\* one job has failed with its error and finished_at set while another, still
\* suspended in pair_bluetooth_device, shows in-progress with neither
C37_Witness ==
    \E j, k \in DOMAIN pairing_jobs :
        /\ pairing_jobs[j]["status"] = "failed"
        /\ pairing_jobs[j]["error"] # None /\ pairing_jobs[j]["finished_at"] # None
        /\ pairing_jobs[k]["status"] = "in-progress" /\ task[k].pc \notin {"scheduled", "done"}
        /\ pairing_jobs[k]["finished_at"] = None

(***************************************************************************)
(* C38  one registry entry per address                                     *)
(***************************************************************************)
\* the registry entries that have an address
Addressed == {id \in DOMAIN devices : devices[id].address # NoAddress}

\* C38: no two entries of the device registry have the same address: a scan
\* that finds a device and a pairing request for the same address, in either
\* order and whatever the raw form of the address, act on one entry.
C38_OneEntryPerAddress ==
    \A a, b \in Addressed : devices[a].address = devices[b].address => a = b

(***************************************************************************)
(* C39  normalising a normalised specification                             *)
(***************************************************************************)
\* the output of the first call has been normalised again
NormalizedAgain == "again" \in DOMAIN normalizedSpec

\* C39: _normalize_command_spec is idempotent: when it accepts a raw
\* specification, it accepts its own output too and returns a specification
\* equal to that output, for ble, rfcomm and samsung commands.
C39_NormalizeIdempotent ==
    NormalizedAgain => /\ normalizedSpec.again.ok
                       /\ normalizedSpec.again.value = normalizedSpec.value

====
